---- MODULE Spec2Model ----
(***************************************************************************)
(* Status-driven orchestration of the 'musica' collection: the stage       *)
(* processors of scheduler.js, the Suno callback handlers of server.js     *)
(* (current and legacy variant) and the cron driver; the lyric pipeline of *)
(* the 'letras' collection (generateLetras, sendLetras), the sequence      *)
(* engine (processSequences, enviarMensaje) with the text of what it sends, *)
(* and the lead upsert of the inbound webhook.  Time is counted in minutes. *)
(* A text is the triple <<leading blanks, core length, trailing blanks>>,  *)
(* so that String.trim() and String.length are computed.  Store calls      *)
(* succeed unless the document they update does not exist; the adapters    *)
(* (text generation, music provider, delivery gateway) may fail.           *)
(***************************************************************************)
EXTENDS Integers, Sequences, FiniteSets, TLC

\* ---------------------------------------------------------------- bounds
MaxTime ==
  25
TimeStep ==
  5
MaxTasks ==
  2
MaxCallbacks ==
  2
MaxSends ==
  2
OverLongReply ==
  121
MaxGatewayFailures ==
  1
MaxInbound ==
  3

\* ------------------------------------------------------ program constants
DELIVER_DELAY_MIN ==
  15
STUCK_MINUTES ==
  10
STYLE_LIMIT ==
  120
TITLE_LIMIT ==
  30
LETRA_DELAY_MIN ==
  15
PHONE_MIN_DIGITS ==
  10
PHONE_MAX_DIGITS ==
  15

\* ------------------------------------------------------------ vocabulary
SinLetra == "Sin letra"
SinPrompt == "Sin prompt"
SinMusica == "Sin música"
Procesando == "Procesando música"
ErrorMusica == "Error música"
AudioListo == "Audio listo"
GenerandoClip == "generating-clip"
EnviarMusica == "Enviar música"
Enviada == "Enviada"
ClipErrors == {"error-download-full", "error-clip", "error-watermark", "error-upload-clip"}
ErrorStatuses == {ErrorMusica} \cup ClipErrors

EnviarLetra == "enviarLetra"
LetraEnviadaStatus == "enviada"

Docs == {1, 2}
LetraDocs == {1, 2}
Launchers == {"t1", "t2"}
Handlers == {"w1", "w2"}
LeadIds == {"L1"}
NoTime == -1
NoTask == 0

\* text helpers ------------------------------------------------------------
Text(pre, core, post) == <<pre, core, post>>
Length(t) == t[1] + t[2] + t[3]
Trim(t) == <<0, t[2], 0>>
EmptyText == <<0, 0, 0>>
Falsy(t) == Length(t) = 0

Min(a, b) == IF a <= b THEN a ELSE b
Slice(t, n) ==
  LET pre == Min(t[1], n)
      core == Min(t[2], n - pre)
      post == Min(t[3], n - pre - core)
  IN <<pre, core, post>>

\* ------------------------------------------------------------------ state
VARIABLES
  scn,       \* the scenario: which server file is deployed, which crons fire
  now,       \* Date.now() / server timestamp, in minutes
  musica,    \* collection 'musica': doc id -> fields
  leads,     \* collection 'leads': lead id -> fields
  tasks,     \* tasks the music provider has accepted; a task id is an index
  launch,    \* the invocations of generarMusicaConSuno, by cron tick
  cb,        \* the callback request being handled by POST /api/suno/callback
  clipRun,   \* the invocation of procesarClips
  deliver,   \* the invocation of enviarMusicaPorWhatsApp
  outbox,    \* messages the delivery gateway accepted, per doc
  cbCount,   \* callback requests received so far
  letras,    \* collection 'letras': doc id -> fields
  gen,       \* the invocation of generateLetras
  send,      \* the invocation of sendLetras
  send2,     \* an invocation of sendLetras that a later cron tick started
             \* while `send` was running, waiting with its snapshot
  seq,       \* the invocation of processSequences
  history,   \* gateway calls and message-log appends, in order, per sender
  hook,      \* the requests POST /webhook is handling, and how many it received
  ev         \* the last step taken: operation, document, outcome

vars ==
  <<scn, now, musica, leads, tasks, launch, cb, clipRun, deliver, outbox, cbCount,
    letras, gen, send, send2, seq, history, hook, ev>>

\* what the music stages leave alone, and what the lyric pipeline and the
\* sequence engine leave alone
crmVars ==
  <<letras, gen, send, send2, seq, history, hook>>
musicVars ==
  <<musica, tasks, launch, cb, clipRun, deliver, outbox, cbCount>>

EvTask(op, d, out, t) ==
  [op |-> op, doc |-> d, out |-> out, task |-> t]
EvOf(op, d, out) ==
  EvTask(op, d, out, NoTask)

\* Documents are created by intake, outside the processors: every doc starts
\* in 'Sin letra' with its inputs; doc 1 belongs to lead L1, the others carry a
\* phone but no leadId (the case scheduler.js:430 warns about).
DocLeadId(d) ==
  IF d = 1 THEN "L1" ELSE ""
DocLeadPhone(d) ==
  IF d = 1 THEN [digits |-> 13, others |-> 0] ELSE [digits |-> 10, others |-> 2]

NewMusic(d) ==
  [status |-> SinLetra, lyrics |-> EmptyText, stylePrompt |-> EmptyText,
   purpose |-> Text(0, 28 + 2 * d, 0), taskId |-> NoTask, errorMsg |-> "",
   fullUrl |-> "", clipUrl |-> "", audioUrl |-> "",
   createdAt |-> TimeStep, generatedAt |-> NoTime, sentAt |-> NoTime,
   leadId |-> DocLeadId(d), leadPhone |-> DocLeadPhone(d)]

NewLead ==
  [secuenciasActivas |-> <<>>, letra |-> EmptyText, letraIds |-> <<>>,
   telefono |-> [digits |-> 13, others |-> 0], etiquetas |-> {}, unreadCount |-> 0,
   nombre |-> << "Ana" >>]

LaunchIdle ==
  [pc |-> "idle", doc |-> 0, seen |-> 0, res |-> "", task |-> NoTask]
CbIdle ==
  [pc |-> "idle", doc |-> 0, task |-> NoTask]
ClipIdle ==
  [pc |-> "idle", doc |-> 0]
DeliverIdle ==
  [pc |-> "idle", queue |-> <<>>, now0 |-> 0]

\* A Lyric Request as intake creates it, for lead l ("" when it names none).
NewLetra(l) ==
  [status |-> SinLetra, letra |-> EmptyText, letraGeneratedAt |-> NoTime, leadId |-> l]
\* `snap`: the documents the query of the invocation returned (snap.docs)
GenIdle ==
  [pc |-> "idle", queue |-> <<>>, snap |-> <<>>]
SendIdle ==
  [pc |-> "idle", queue |-> <<>>, now0 |-> 0, step |-> 0]
\* `waited`: the positions the invocation passed over as not yet due
\* `from`: msg.from; `found`: the id the lookup returned, "" when it was empty
HookIdle ==
  [pc |-> "idle", from |-> [digits |-> 0, others |-> 0], found |-> ""]
\* `data`: the lead as the invocation read it (`lead = { id, ...doc.data() }`)
SeqIdle ==
  [pc |-> "idle", lead |-> "", list |-> <<>>, k |-> 0, dirty |-> FALSE, waited |-> {},
   data |-> NewLead]

\* collection 'secuencias': the messages of the definition of a trigger, <<>>
\* when the trigger has no definition.  A `contenido`, and the value of a
\* template parameter, is a sequence of parts: "lit" for literal text, or a
\* placeholder.
SeqMessages(trigger) ==
  CASE trigger = "NuevoLead" ->
         << [type |-> "texto", delay |-> 0, contenido |-> << "lit", "{{nombre}}" >>] >>
    [] trigger = "CancionEnviada" ->
         << [type |-> "template", delay |-> 10, parameters |-> << << "{{letra}}" >> >>] >>
    [] trigger = "LetraEnviada" ->
         << [type |-> "texto", delay |-> 0, contenido |-> << "lit" >>],
            [type |-> "audio", delay |-> 5, contenido |-> << "lit" >>] >>
    [] trigger = "Contenido" ->
         << [type |-> "texto", delay |-> 0,
             contenido |-> << "lit", "{{nombre}}", "{{ciudad}}", "{{telefono}}" >>],
            [type |-> "formulario", delay |-> 0,
             contenido |-> << "lit", "{{nombre}}", "{{telefono}}", "{{ciudad}}" >>],
            [type |-> "audio", delay |-> 0, contenido |-> << "lit", "{{nombre}}" >>],
            [type |-> "imagen", delay |-> 0, contenido |-> << "lit", "{{ciudad}}" >>],
            [type |-> "video", delay |-> 0, contenido |-> << "lit", "{{nombre}}" >>],
            [type |-> "template", delay |-> 0,
             parameters |-> << << "{{letra}}" >>, << "{{nombre}}" >> >>] >>
    [] OTHER -> <<>>
SeqDefined(trigger) ==
  trigger \in {"NuevoLead", "CancionEnviada", "LetraEnviada", "Contenido"}
\* an instance that starts at its second step
MutNewInstance(trigger, t) ==
  [trigger |-> trigger, startTime |-> t, index |-> 1]
\* server.js:376  the instance the webhook stores for a new lead
NewInstance(trigger, t) ==
  [trigger |-> trigger, startTime |-> t, index |-> 0]

\* ------------------------------------------------------------- scenarios
\* The documents as an earlier stage leaves them.
AfterLetra(m) ==
  [m EXCEPT !.lyrics = Text(0, 40, 0), !.status = SinPrompt]
AfterPrompt(m) ==
  [AfterLetra(m) EXCEPT !.stylePrompt = Text(0, STYLE_LIMIT, 0), !.status = SinMusica]
AfterLaunchError(m) ==
  [AfterPrompt(m) EXCEPT !.status = ErrorMusica, !.errorMsg = "err",
                         !.generatedAt = TimeStep]
AfterClip(m, t) ==
  [AfterPrompt(m) EXCEPT !.status = EnviarMusica, !.generatedAt = TimeStep,
                         !.taskId = t, !.fullUrl = "full", !.clipUrl = "clip"]
LeadAfterLetra ==
  [NewLead EXCEPT !.letra = Text(0, 40, 0), !.letraIds = <<(<<"musica", 1>>)>>]

\* the names a lead is stored with: none, one word, two words with a blank or
\* a tab between them, a word after a blank
Names ==
  { <<>>, << "Ana" >>, << "Ana", "sp", "Maria" >>, << "Ana", "tab", "Maria" >>,
    << "sp", "Ana" >> }
\* the lyric-history lists a lead is stored with: the ids of its requests in
\* the order generateLetras added them, or the id of a document of 'musica'
LetraIdLists ==
  { <<>>, << <<"letras", 1>> >>, << <<"letras", 1>>, <<"letras", 2>> >>,
    << <<"musica", 1>> >> }
\* the phone numbers a lead is stored with: 0 to 18 digits, alone or with two
\* other characters ('+', blanks, dashes)
Phones ==
  {[digits |-> n, others |-> o] : n \in {0, 3, 9, 10, 13, 15, 16, 18}, o \in {0, 2}}
\* a document ready for delivery that lacks one of the fields scheduler.js:596
\* asks for
Lacking(m, f) ==
  CASE f = "phone" -> [m EXCEPT !.leadPhone = [digits |-> 0, others |-> 2]]
    [] f = "lyrics" -> [m EXCEPT !.lyrics = EmptyText]
    [] f = "clip" -> [m EXCEPT !.clipUrl = ""]
    \* scheduler.js:591 reads createdAt with `?.`: a document without it
    [] f = "createdAt" -> [m EXCEPT !.createdAt = NoTime]

AllStages ==
  {"letra", "prompt", "launch", "callback", "clips", "reaper", "deliver", "tick"}

\* Each scenario is a configuration the deployed system passes through: which
\* server file runs, the crons that fire while it is observed, whether a cron
\* tick may start while the previous invocation of the same stage is still
\* running, the senders whose gateway calls fail, and the documents as intake
\* or the earlier stages left them.
Scenarios ==
  { [name |-> "pipeline", variant |-> "current", stages |-> AllStages, overlap |-> FALSE,
     payloads |-> {"audio", "error"}, strays |-> FALSE, live |-> d, failing |-> {}] : d \in Docs }
  \cup
  { [name |-> "pipeline", variant |-> "legacy", stages |-> AllStages, overlap |-> FALSE,
     payloads |-> {"audio", "error", "none"}, strays |-> FALSE, live |-> 1, failing |-> {}],
    [name |-> "generate", variant |-> "current", stages |-> {"letra", "prompt"},
     overlap |-> FALSE, payloads |-> {}, strays |-> FALSE, live |-> 0, failing |-> {}],
    [name |-> "launch", variant |-> "current",
     stages |-> {"launch", "callback", "reaper", "tick"}, overlap |-> TRUE,
     payloads |-> {"audio", "error"}, strays |-> FALSE, live |-> 1, failing |-> {}],
    [name |-> "launch-queue", variant |-> "current",
     stages |-> {"launch", "tick"}, overlap |-> FALSE,
     payloads |-> {}, strays |-> FALSE, live |-> 0, failing |-> {}],
    [name |-> "deliver", variant |-> "current",
     stages |-> {"deliver", "callback", "tick"}, overlap |-> FALSE,
     payloads |-> {"audio"}, strays |-> TRUE, live |-> 0, failing |-> {}],
    [name |-> "letras-overlap", variant |-> "current",
     stages |-> {"sendLetras", "tick"}, overlap |-> TRUE,
     payloads |-> {}, strays |-> FALSE, live |-> 0, failing |-> {}],
    [name |-> "letras", variant |-> "current",
     stages |-> {"generateLetras", "sendLetras", "tick"}, overlap |-> FALSE,
     payloads |-> {}, strays |-> FALSE, live |-> 0, failing |-> {"sendLetras"}],
    [name |-> "letras-orphan", variant |-> "current",
     stages |-> {"generateLetras", "sendLetras", "tick"}, overlap |-> FALSE,
     payloads |-> {}, strays |-> FALSE, live |-> 0, failing |-> {}],
    [name |-> "sequences", variant |-> "current",
     stages |-> {"sequences", "sendLetras", "tick"}, overlap |-> FALSE,
     payloads |-> {}, strays |-> FALSE, live |-> 0, failing |-> {"engine"}] }
  \cup
  { [name |-> "webhook", variant |-> "current",
     stages |-> {"webhook", "tick"}, overlap |-> TRUE,
     payloads |-> {}, strays |-> FALSE, live |-> 0, failing |-> {}] }
  \cup
  { [name |-> "content", variant |-> "current",
     stages |-> {"sequences", "tick"}, overlap |-> FALSE,
     payloads |-> {}, strays |-> FALSE, live |-> 0, failing |-> {},
     nombre |-> n, letraIds |-> ids] :
       n \in Names, ids \in LetraIdLists }
  \cup
  { [name |-> "letras-phones", variant |-> "current",
     stages |-> {"sendLetras", "tick"}, overlap |-> FALSE,
     payloads |-> {}, strays |-> FALSE, live |-> 0, failing |-> {},
     telefono |-> p] : p \in Phones }
  \cup
  { [name |-> "deliver-missing",
     \* a record in 'Enviar música' without a clip is one the legacy handler
     \* left there (part_000:148-155)
     variant |-> IF f = "clip" THEN "legacy" ELSE "current",
     stages |-> {"deliver", "tick"}, overlap |-> FALSE,
     payloads |-> {}, strays |-> FALSE, live |-> 0, failing |-> {},
     lacks |-> f] : f \in {"phone", "lyrics", "clip", "createdAt"} }

\* the task ids a callback request can carry in the scenario: those the
\* provider issued and, for stray requests, none (0) or an unknown one
CallbackTasks ==
  (1..Len(tasks)) \cup (IF scn.strays THEN {NoTask, Len(tasks) + 1} ELSE {})

InitMusic(s, d) ==
  CASE s.name = "pipeline" -> IF d = s.live THEN NewMusic(d) ELSE AfterLaunchError(NewMusic(d))
    [] s.name = "generate" -> NewMusic(d)
    [] s.name = "launch" -> IF d = s.live THEN AfterPrompt(NewMusic(d))
                                          ELSE AfterLaunchError(NewMusic(d))
    [] s.name = "launch-queue" -> AfterPrompt(NewMusic(d))
    [] s.name = "deliver" -> AfterClip(NewMusic(d), d)
    [] s.name = "deliver-missing" ->
         IF d = 1 THEN Lacking(AfterClip(NewMusic(d), NoTask), s.lacks)
         ELSE AfterClip(NewMusic(d), NoTask)
    [] OTHER -> AfterLaunchError(NewMusic(d))
InitTasks(s) ==
  IF s.name = "deliver"
  THEN [d \in Docs |-> [doc |-> d, seen |-> 0, title |-> Slice(NewMusic(d).purpose, TITLE_LIMIT)]]
  ELSE <<>>
InitLead(s) ==
  IF s.name \in {"launch", "launch-queue", "deliver"} \/ (s.name = "pipeline" /\ s.live # 1)
  THEN LeadAfterLetra
  ELSE IF s.name = "sequences"
  THEN [NewLead EXCEPT !.letra = Text(0, 40, 0), !.letraIds = << <<"letras", 1>> >>,
                       !.etiquetas = {"NuevoLead"},
                       !.secuenciasActivas = << NewInstance("NuevoLead", TimeStep),
                                                NewInstance("CancionEnviada", TimeStep),
                                                NewInstance("SinDefinicion", TimeStep) >>]
  ELSE IF s.name = "content"
  THEN [NewLead EXCEPT !.nombre = s.nombre, !.letraIds = s.letraIds,
                       !.letra = IF s.letraIds = <<>> THEN EmptyText
                                 ELSE Text(0, 39 + Len(s.letraIds), 0),
                       !.telefono = [digits |-> 10, others |-> 2],
                       !.secuenciasActivas = << NewInstance("SinDefinicion", TimeStep),
                                                NewInstance("Contenido", TimeStep) >>]
  ELSE IF s.name = "letras-phones"
  THEN [NewLead EXCEPT !.letra = Text(0, 40, 0), !.letraIds = << <<"letras", 1>> >>,
                       !.telefono = s.telefono]
  ELSE NewLead
\* the Lyric Requests: new ones of the lead (the first naming no lead in
\* "letras-orphan"), one generated and waiting for delivery in "sequences",
\* two generated ones in "letras-phones" (the second naming a lead that is
\* not in the collection), delivered ones elsewhere
InitLetra(s, d) ==
  CASE s.name = "letras" -> NewLetra("L1")
    [] s.name = "letras-orphan" -> NewLetra(IF d = 1 THEN "" ELSE "L1")
    [] s.name \in {"sequences", "letras-overlap"} /\ d = 1 ->
         [NewLetra("L1") EXCEPT !.status = EnviarLetra, !.letra = Text(0, 40, 0),
                                !.letraGeneratedAt = 0]
    [] s.name = "content" ->
         [NewLetra("L1") EXCEPT !.status = LetraEnviadaStatus, !.letra = Text(0, 39 + d, 0),
                                !.letraGeneratedAt = d - 1]
    [] s.name = "letras-phones" ->
         [NewLetra(IF d = 1 THEN "L1" ELSE "L0") EXCEPT
            !.status = EnviarLetra, !.letra = Text(0, 40, 0), !.letraGeneratedAt = 0]
    [] OTHER ->
         [NewLetra("L1") EXCEPT !.status = LetraEnviadaStatus, !.letra = Text(0, 40, 0),
                                !.letraGeneratedAt = 0]

Init ==
  /\ scn \in Scenarios
  /\ now = TimeStep
  /\ musica = [d \in Docs |-> InitMusic(scn, d)]
  /\ leads = [l \in LeadIds |-> InitLead(scn)]
  /\ tasks = InitTasks(scn)
  /\ launch = [i \in Launchers |-> LaunchIdle]
  /\ cb = CbIdle
  /\ clipRun = ClipIdle
  /\ deliver = DeliverIdle
  /\ outbox = [d \in Docs |-> [letra |-> 0, clip |-> 0]]
  /\ cbCount = 0
  /\ letras = [d \in LetraDocs |-> InitLetra(scn, d)]
  /\ gen = GenIdle
  /\ send = SendIdle
  /\ send2 = SendIdle
  /\ seq = SeqIdle
  /\ history = [sendLetras |-> <<>>, engine |-> <<>>, webhook |-> <<>>]
  /\ hook = [run |-> [h \in Handlers |-> HookIdle], received |-> 0]
  /\ ev = EvOf("init", 0, "")

\* ------------------------------------------------------------ store helpers
\* a query without its where clause
MutWithStatus(s) ==
  Docs

\* where('status','==',s): the documents a query returns, in document-id order
WithStatus(s) ==
  {d \in Docs : musica[d].status = s}
First(S) ==
  CHOOSE d \in S : \A e \in S : d <= e
\* an array update that adds nothing
MutArrayUnion(arr, x) ==
  arr
\* FieldValue.arrayUnion: appends the element unless the array holds it already
ArrayUnion(arr, x) ==
  IF \E k \in 1..Len(arr) : arr[k] = x THEN arr ELSE Append(arr, x)
\* String(phone).replace(/\D/g, '')
StripNonDigits(p) ==
  [digits |-> p.digits, others |-> 0]

\* ------------------------------------------------- text-generation adapter
\* What openai.createChatCompletion can answer: it throws, or it returns a text.
LyricReplies ==
  {[threw |-> TRUE, text |-> EmptyText],
   [threw |-> FALSE, text |-> EmptyText],
   [threw |-> FALSE, text |-> Text(2, 0, 1)],
   [threw |-> FALSE, text |-> Text(1, 40, 1)]}
StyleReplies ==
  {[threw |-> TRUE, text |-> EmptyText],
   [threw |-> FALSE, text |-> Text(1, STYLE_LIMIT, 1)],
   [threw |-> FALSE, text |-> Text(0, OverLongReply, 2)]}

\* how a reply of the adapter is named in ev
ReplyKind(reply) ==
  IF reply.threw THEN "threw"
  ELSE IF Length(reply.text) = 0 THEN "empty"
  ELSE IF Falsy(Trim(reply.text)) THEN "blank"
  ELSE "text"

\* a slip in the emptiness test: any reply that did not throw is stored
MutLetraAccepted(reply) ==
  ~reply.threw

\* scheduler.js:411-412  `if (!letra) throw`
LetraAccepted(reply) ==
  ~reply.threw /\ ~Falsy(Trim(reply.text))

\* scheduler.js:384-433.  The lyric is written to the doc, then to its lead.
generarLetraParaMusica ==
  /\ "letra" \in scn.stages
  /\ WithStatus(SinLetra) # {}
  /\ LET d == First(WithStatus(SinLetra)) IN
     \E reply \in LyricReplies :
       IF LetraAccepted(reply)
       THEN /\ musica' = [musica EXCEPT ![d].lyrics = Trim(reply.text),
                                        ![d].status = SinPrompt]
            /\ leads' = IF musica[d].leadId \in DOMAIN leads
                        THEN [leads EXCEPT
                                ![musica[d].leadId].letra = Trim(reply.text),
                                ![musica[d].leadId].letraIds =
                                   ArrayUnion(@, <<"musica", d>>)]
                        ELSE leads
            /\ ev' = EvOf("generarLetraParaMusica", d, ReplyKind(reply))
       ELSE /\ UNCHANGED <<musica, leads>>
            /\ ev' = EvOf("generarLetraParaMusica", d, ReplyKind(reply))
  /\ UNCHANGED <<scn, now, tasks, launch, cb, clipRun, deliver, outbox, cbCount>>
  /\ UNCHANGED crmVars

\* scheduler.js:471  `content.trim()`: what is stored as stylePrompt
StylePromptOf(text) ==
  Trim(text)

\* scheduler.js:441-480
generarPromptParaMusica ==
  /\ "prompt" \in scn.stages
  /\ WithStatus(SinPrompt) # {}
  /\ LET d == First(WithStatus(SinPrompt)) IN
     \E reply \in StyleReplies :
       IF reply.threw
       THEN /\ UNCHANGED musica
            /\ ev' = EvOf("generarPromptParaMusica", d, ReplyKind(reply))
       ELSE /\ musica' = [musica EXCEPT ![d].stylePrompt = StylePromptOf(reply.text),
                                        ![d].status = SinMusica]
            /\ ev' = EvOf("generarPromptParaMusica", d, ReplyKind(reply))
  /\ UNCHANGED <<scn, now, leads, tasks, launch, cb, clipRun, deliver, outbox, cbCount>>
  /\ UNCHANGED crmVars

\* ------------------------------------------------------------------ Launch
\* submissions the provider holds for doc d
TasksOf(d) ==
  {t \in 1..Len(tasks) : tasks[t].doc = d}
InFlight ==
  {i \in Launchers : launch[i].pc \in {"selected", "marked"}}

\* What the POST to the provider can produce (scheduler.js:509-520): a task id,
\* an exception of axios, a code other than 200, or no data.taskId.
SunoOutcomes ==
  {"ok", "threw", "bad-code", "no-taskId"}

\* scheduler.js:532-540  query and read of the snapshot
generarMusicaConSuno_select(i) ==
  /\ "launch" \in scn.stages
  /\ launch[i].pc = "idle"
  /\ scn.overlap \/ \A j \in Launchers : launch[j].pc = "idle"
  /\ WithStatus(SinMusica) # {}
  /\ Len(tasks) + Cardinality(InFlight) < MaxTasks
  /\ LET d == First(WithStatus(SinMusica)) IN
     /\ launch' = [launch EXCEPT ![i] =
                     [pc |-> "selected", doc |-> d, seen |-> Cardinality(TasksOf(d)),
                      res |-> "", task |-> NoTask]]
     /\ ev' = EvOf("generarMusicaConSuno.select", d, "")
  /\ UNCHANGED <<scn, now, musica, leads, tasks, cb, clipRun, deliver, outbox, cbCount>>
  /\ UNCHANGED crmVars

\* scheduler.js:543-547
generarMusicaConSuno_mark(i) ==
  /\ launch[i].pc = "selected"
  /\ LET d == launch[i].doc IN
     /\ musica' = [musica EXCEPT ![d].status = Procesando, ![d].generatedAt = now]
     /\ launch' = [launch EXCEPT ![i].pc = "marked"]
     /\ ev' = EvOf("generarMusicaConSuno.mark", d, "")
  /\ UNCHANGED <<scn, now, leads, tasks, cb, clipRun, deliver, outbox, cbCount>>
  /\ UNCHANGED crmVars

\* scheduler.js:496-521, called at 551-555 with title = purpose.slice(0, 30)
lanzarTareaSuno(i) ==
  /\ launch[i].pc = "marked"
  /\ LET d == launch[i].doc IN
     \E out \in SunoOutcomes :
       /\ IF out = "ok"
          THEN /\ tasks' = Append(tasks, [doc |-> d, seen |-> launch[i].seen,
                                         title |-> Slice(musica[d].purpose, TITLE_LIMIT)])
               /\ launch' = [launch EXCEPT ![i].pc = "posted", ![i].res = out,
                                           ![i].task = Len(tasks) + 1]
          ELSE /\ UNCHANGED tasks
               /\ launch' = [launch EXCEPT ![i].pc = "posted", ![i].res = out]
       /\ ev' = EvOf("lanzarTareaSuno", d, out)
  /\ UNCHANGED <<scn, now, musica, leads, cb, clipRun, deliver, outbox, cbCount>>
  /\ UNCHANGED crmVars

\* scheduler.js:556 (task id stored) and 559-567 (catch)
generarMusicaConSuno_finish(i) ==
  /\ launch[i].pc = "posted"
  /\ LET d == launch[i].doc IN
     /\ musica' = IF launch[i].res = "ok"
                  THEN [musica EXCEPT ![d].taskId = launch[i].task]
                  ELSE [musica EXCEPT ![d].status = ErrorMusica,
                                      ![d].errorMsg = "err"]
     /\ ev' = EvTask("generarMusicaConSuno.end", d, launch[i].res, launch[i].task)
     /\ launch' = [launch EXCEPT ![i] = LaunchIdle]
  /\ UNCHANGED <<scn, now, leads, tasks, cb, clipRun, deliver, outbox, cbCount>>
  /\ UNCHANGED crmVars

generarMusicaConSuno(i) ==
  \/ generarMusicaConSuno_select(i)
  \/ generarMusicaConSuno_mark(i)
  \/ lanzarTareaSuno(i)
  \/ generarMusicaConSuno_finish(i)

\* ------------------------------------------------- provider callback (HTTP)
\* where('taskId','==',t).limit(1)
WithTask(t) ==
  {d \in Docs : musica[d].taskId = t}

\* the current handler writing the status the legacy handler wrote
MutCallbackReadyStatus ==
  EnviarMusica

\* server.js:161  the status the handler writes once the full track is stored
CallbackReadyStatus ==
  AudioListo

\* server.js:124-140  request parsing and lookup
sunoCallback_receive(t, payload) ==
  /\ "callback" \in scn.stages
  /\ scn.variant = "current"
  /\ cb.pc = "idle"
  /\ cbCount < MaxCallbacks
  /\ cbCount' = cbCount + 1
  /\ IF t = NoTask
     THEN /\ cb' = cb
          /\ ev' = EvTask("sunoCallback", 0, "400", t)
     ELSE IF payload # "audio"
     THEN /\ cb' = cb
          /\ ev' = EvTask("sunoCallback", 0, "200-" \o payload, t)
     ELSE IF WithTask(t) = {}
     THEN /\ cb' = cb
          /\ ev' = EvTask("sunoCallback", 0, "404", t)
     ELSE /\ cb' = [pc |-> "download", doc |-> First(WithTask(t)), task |-> t]
          /\ ev' = EvTask("sunoCallback", First(WithTask(t)), "found", t)
  /\ UNCHANGED <<scn, now, musica, leads, tasks, launch, clipRun, deliver, outbox>>
  /\ UNCHANGED crmVars

\* server.js:142-170  download, upload, sign, then the write; catch on failure
sunoCallback_finish ==
  /\ scn.variant = "current"
  /\ cb.pc = "download"
  /\ \E ok \in BOOLEAN :
       /\ musica' = IF ok
                    THEN [musica EXCEPT ![cb.doc].fullUrl = "full",
                                        ![cb.doc].status = CallbackReadyStatus]
                    ELSE [musica EXCEPT ![cb.doc].status = ErrorMusica,
                                        ![cb.doc].errorMsg = "err"]
       /\ ev' = EvTask("sunoCallback.end", cb.doc, IF ok THEN "200" ELSE "500", cb.task)
  /\ cb' = CbIdle
  /\ UNCHANGED <<scn, now, leads, tasks, launch, clipRun, deliver, outbox, cbCount>>
  /\ UNCHANGED crmVars

\* part_000:120-164  the legacy handler of the same route
sunoCallbackLegacy(t, payload) ==
  /\ "callback" \in scn.stages
  /\ scn.variant = "legacy"
  /\ cbCount < MaxCallbacks
  /\ cbCount' = cbCount + 1
  /\ IF t = NoTask \/ WithTask(t) = {}
     THEN /\ UNCHANGED musica
          /\ ev' = EvTask("sunoCallbackLegacy", 0, IF t = NoTask THEN "throw" ELSE "404", t)
     ELSE LET d == First(WithTask(t)) IN
          /\ musica' = CASE payload = "audio" ->
                              [musica EXCEPT ![d].audioUrl = "audio",
                                             ![d].status = EnviarMusica]
                         [] payload = "error" ->
                              [musica EXCEPT ![d].status = ErrorMusica,
                                             ![d].errorMsg = "err"]
                         [] OTHER -> musica
          /\ ev' = EvTask("sunoCallbackLegacy", d, "200-" \o payload, t)
  /\ UNCHANGED <<scn, now, leads, tasks, launch, cb, clipRun, deliver, outbox>>
  /\ UNCHANGED crmVars

\* ------------------------------------------------------------------- Clip
\* procesarClips is imported by server.js:29 and scheduled at server.js:526;
\* its body is not among the sources, so it follows the design's stage table.
procesarClips_start ==
  /\ "clips" \in scn.stages
  /\ scn.variant = "current"
  /\ clipRun.pc = "idle"
  /\ WithStatus(AudioListo) # {}
  /\ LET d == First(WithStatus(AudioListo)) IN
     \E ok \in BOOLEAN :
       IF ok
       THEN /\ musica' = [musica EXCEPT ![d].status = GenerandoClip]
            /\ clipRun' = [pc |-> "clip", doc |-> d]
            /\ ev' = EvOf("procesarClips", d, "downloaded")
       ELSE /\ musica' = [musica EXCEPT ![d].status = "error-download-full",
                                        ![d].errorMsg = "err"]
            /\ clipRun' = ClipIdle
            /\ ev' = EvOf("procesarClips", d, "error-download-full")
  /\ UNCHANGED <<scn, now, leads, tasks, launch, cb, deliver, outbox, cbCount>>
  /\ UNCHANGED crmVars

procesarClips_finish ==
  /\ scn.variant = "current"
  /\ clipRun.pc = "clip"
  /\ LET d == clipRun.doc IN
     \E out \in {"ok", "error-clip", "error-watermark", "error-upload-clip"} :
       /\ musica' = IF out = "ok"
                    THEN [musica EXCEPT ![d].clipUrl = "clip", ![d].status = EnviarMusica]
                    ELSE [musica EXCEPT ![d].status = out, ![d].errorMsg = "err"]
       /\ ev' = EvOf("procesarClips.end", d, out)
  /\ clipRun' = ClipIdle
  /\ UNCHANGED <<scn, now, leads, tasks, launch, cb, deliver, outbox, cbCount>>
  /\ UNCHANGED crmVars

\* ------------------------------------------------------------------ Reaper
\* retryStuckMusic is imported by server.js:30 and scheduled at server.js:532
\* with a threshold of 10 minutes; its body is not among the sources.
\* the threshold compared with >= instead of >
MutStuck(d, thresholdMin) ==
  /\ musica[d].status = Procesando
  /\ musica[d].generatedAt # NoTime
  /\ now - musica[d].generatedAt >= thresholdMin

\* a reaper that looks only at the records without a generation timestamp
MutStuckUnstamped(d, thresholdMin) ==
  /\ musica[d].status = Procesando
  /\ musica[d].generatedAt = NoTime

Stuck(d, thresholdMin) ==
  /\ musica[d].status = Procesando
  /\ musica[d].generatedAt # NoTime
  /\ now - musica[d].generatedAt > thresholdMin

retryStuckMusic(thresholdMin) ==
  /\ "reaper" \in scn.stages
  /\ scn.variant = "current"
  /\ musica' = [d \in Docs |->
                  IF Stuck(d, thresholdMin)
                  THEN [musica[d] EXCEPT !.status = SinMusica, !.taskId = NoTask,
                                         !.errorMsg = ""]
                  ELSE musica[d]]
  /\ ev' = EvOf("retryStuckMusic", 0,
                IF \E d \in Docs : Stuck(d, thresholdMin) THEN "reset" ELSE "none")
  /\ UNCHANGED <<scn, now, leads, tasks, launch, cb, clipRun, deliver, outbox, cbCount>>
  /\ UNCHANGED crmVars

\* ----------------------------------------------------------------- Deliver
\* scheduler.js:591  `doc.createdAt?.toDate?.().getTime() || now`
CreatedOrNow(createdAt, now0) ==
  IF createdAt = NoTime \/ createdAt = 0 THEN now0 ELSE createdAt
\* the gate written with <= : a record exactly 15 minutes old is held back
MutDeliverDue(created, now0) ==
  ~(now0 - created <= DELIVER_DELAY_MIN)

\* scheduler.js:594  `if (now - created < 15 * 60_000) continue`
DeliverDue(created, now0) ==
  ~(now0 - created < DELIVER_DELAY_MIN)
\* the test of the fields left out
MutDeliverComplete(d) ==
  TRUE

\* scheduler.js:596  `if (!phone || !lyrics || !clip) continue`
DeliverComplete(d) ==
  /\ StripNonDigits(musica[d].leadPhone).digits > 0
  /\ ~Falsy(musica[d].lyrics)
  /\ musica[d].clipUrl # ""
\* the order of a list of documents returned by a query: by document id
RECURSIVE InIdOrder(_)
InIdOrder(S) ==
  IF S = {} THEN <<>> ELSE <<First(S)>> \o InIdOrder(S \ {First(S)})

DeliverNext ==
  IF Len(deliver.queue) > 1
  THEN [pc |-> "loop", queue |-> Tail(deliver.queue), now0 |-> deliver.now0]
  ELSE DeliverIdle

\* scheduler.js:577-582
enviarMusicaPorWhatsApp_query ==
  /\ "deliver" \in scn.stages
  /\ deliver.pc = "idle"
  /\ WithStatus(EnviarMusica) # {}
  /\ \A d \in WithStatus(EnviarMusica) : outbox[d].letra < MaxSends
  /\ deliver' = [pc |-> "loop", queue |-> InIdOrder(WithStatus(EnviarMusica)), now0 |-> now]
  /\ ev' = EvOf("enviarMusicaPorWhatsApp.query", 0, "")
  /\ UNCHANGED <<scn, now, musica, leads, tasks, launch, cb, clipRun, outbox, cbCount>>
  /\ UNCHANGED crmVars

\* scheduler.js:584-599  the two `continue` of the loop
enviarMusicaPorWhatsApp_skip ==
  /\ deliver.pc = "loop"
  /\ LET d == Head(deliver.queue) IN
     /\ \/ ~DeliverDue(CreatedOrNow(musica[d].createdAt, deliver.now0), deliver.now0)
        \/ ~DeliverComplete(d)
     /\ ev' = EvOf("enviarMusicaPorWhatsApp.skip", d,
                   IF ~DeliverDue(CreatedOrNow(musica[d].createdAt, deliver.now0), deliver.now0)
                   THEN "not-due" ELSE "missing")
  /\ deliver' = DeliverNext
  /\ UNCHANGED <<scn, now, musica, leads, tasks, launch, cb, clipRun, outbox, cbCount>>
  /\ UNCHANGED crmVars

\* scheduler.js:603  sendTextMessage(phone, lyrics); it may throw (catch at 624)
enviarMusicaPorWhatsApp_letra ==
  /\ deliver.pc = "loop"
  /\ LET d == Head(deliver.queue) IN
     /\ DeliverDue(CreatedOrNow(musica[d].createdAt, deliver.now0), deliver.now0)
     /\ DeliverComplete(d)
     /\ \E ok \in BOOLEAN :
          IF ok
          THEN /\ outbox' = [outbox EXCEPT ![d].letra = @ + 1]
               /\ deliver' = [deliver EXCEPT !.pc = "clip"]
               /\ ev' = EvOf("enviarMusicaPorWhatsApp.letra", d, "sent")
          ELSE /\ UNCHANGED outbox
               /\ deliver' = DeliverNext
               /\ ev' = EvOf("enviarMusicaPorWhatsApp.letra", d, "throw")
  /\ UNCHANGED <<scn, now, musica, leads, tasks, launch, cb, clipRun, cbCount>>
  /\ UNCHANGED crmVars

\* scheduler.js:606  sendAudioMessage(phone, clip)
enviarMusicaPorWhatsApp_clip ==
  /\ deliver.pc = "clip"
  /\ LET d == Head(deliver.queue) IN
     \E ok \in BOOLEAN :
       IF ok
       THEN /\ outbox' = [outbox EXCEPT ![d].clip = @ + 1]
            /\ deliver' = [deliver EXCEPT !.pc = "mark"]
            /\ ev' = EvOf("enviarMusicaPorWhatsApp.clip", d, "sent")
       ELSE /\ UNCHANGED outbox
            /\ deliver' = DeliverNext
            /\ ev' = EvOf("enviarMusicaPorWhatsApp.clip", d, "throw")
  /\ UNCHANGED <<scn, now, musica, leads, tasks, launch, cb, clipRun, cbCount>>
  /\ UNCHANGED crmVars

\* scheduler.js:609-612
enviarMusicaPorWhatsApp_mark ==
  /\ deliver.pc = "mark"
  /\ LET d == Head(deliver.queue) IN
     /\ musica' = [musica EXCEPT ![d].status = Enviada, ![d].sentAt = now]
     /\ ev' = EvOf("enviarMusicaPorWhatsApp.mark", d, "")
  /\ deliver' = [deliver EXCEPT !.pc = "enqueue"]
  /\ UNCHANGED <<scn, now, leads, tasks, launch, cb, clipRun, outbox, cbCount>>
  /\ UNCHANGED crmVars

\* scheduler.js:615-626  update of the lead; it throws when the doc names no
\* lead, and the catch only logs
enviarMusicaPorWhatsApp_enqueue ==
  /\ deliver.pc = "enqueue"
  /\ LET d == Head(deliver.queue)
         l == musica[d].leadId IN
     IF l \in DOMAIN leads
     THEN /\ leads' = [leads EXCEPT ![l].secuenciasActivas =
                         ArrayUnion(@, [trigger |-> "CancionEnviada",
                                        startTime |-> now, index |-> 0])]
          /\ ev' = EvOf("enviarMusicaPorWhatsApp.end", d, "ok")
     ELSE /\ UNCHANGED leads
          /\ ev' = EvOf("enviarMusicaPorWhatsApp.end", d, "throw")
  /\ deliver' = DeliverNext
  /\ UNCHANGED <<scn, now, musica, tasks, launch, cb, clipRun, outbox, cbCount>>
  /\ UNCHANGED crmVars

enviarMusicaPorWhatsApp ==
  \/ enviarMusicaPorWhatsApp_query
  \/ enviarMusicaPorWhatsApp_skip
  \/ enviarMusicaPorWhatsApp_letra
  \/ enviarMusicaPorWhatsApp_clip
  \/ enviarMusicaPorWhatsApp_mark
  \/ enviarMusicaPorWhatsApp_enqueue

\* ----------------------------------------------------------- lyric pipeline
\* where('status','==',s) on collection 'letras'
WithLetraStatus(s) ==
  {d \in LetraDocs : letras[d].status = s}

\* scheduler.js:256-265  what the completion can answer for a lyric request:
\* the replies of the adapter, with a second lyric of another length
LetraReplies ==
  LyricReplies \cup {[threw |-> FALSE, text |-> Text(0, 41, 0)]}

\* the emptiness test dropped: any reply that did not throw is stored
MutLetraUsable(reply) ==
  ~reply.threw

\* scheduler.js:265-266  `letra = content?.trim(); if (!letra) continue`
LetraUsable(reply) ==
  ~reply.threw /\ ~Falsy(Trim(reply.text))

\* the loop of generateLetras moving to the next record of its snapshot
GenNext ==
  IF Len(gen.queue) > 1
  THEN [gen EXCEPT !.queue = Tail(gen.queue)]
  ELSE GenIdle

\* scheduler.js:238-240
generateLetras_query ==
  /\ "generateLetras" \in scn.stages
  /\ gen.pc = "idle"
  /\ WithLetraStatus(SinLetra) # {}
  /\ gen' = [pc |-> "loop", queue |-> InIdOrder(WithLetraStatus(SinLetra)),
              snap |-> InIdOrder(WithLetraStatus(SinLetra))]
  /\ ev' = EvOf("generateLetras.query", 0, "")
  /\ UNCHANGED <<scn, now, leads, letras, send, seq, history>>
  /\ UNCHANGED <<musicVars, hook, send2>>

\* scheduler.js:243-284  one record of the loop.  A throw of the adapter, or of
\* the lead update when the request names no lead, leaves the loop through the
\* catch at 287-289.
generateLetras_record ==
  /\ gen.pc = "loop"
  /\ LET d == Head(gen.queue)
         l == letras[d].leadId IN
     \E reply \in LetraReplies :
       /\ ev' = EvOf("generateLetras", d, ReplyKind(reply))
       /\ IF reply.threw
          THEN /\ UNCHANGED <<letras, leads>>
               /\ gen' = GenIdle
          ELSE IF ~LetraUsable(reply)
          THEN /\ UNCHANGED <<letras, leads>>
               /\ gen' = GenNext
          ELSE /\ letras' = [letras EXCEPT ![d].letra = Trim(reply.text),
                                           ![d].status = EnviarLetra,
                                           ![d].letraGeneratedAt = now]
               /\ IF l \in DOMAIN leads
                  THEN /\ leads' = [leads EXCEPT ![l].letra = Trim(reply.text),
                                                 ![l].letraIds =
                                                    ArrayUnion(@, <<"letras", d>>)]
                       /\ gen' = GenNext
                  ELSE /\ UNCHANGED leads
                       /\ gen' = GenIdle
  /\ UNCHANGED <<scn, now, send, seq, history>>
  /\ UNCHANGED <<musicVars, hook, send2>>

generateLetras ==
  \/ generateLetras_query
  \/ generateLetras_record

\* ---------------------------------------------------------- delivery gateway
\* whatsappService normalize (scheduler.js:658-662): digits only, 52 prefixed
\* to a 10-digit number
Normalize(p) ==
  [digits |-> IF p.digits = 10 THEN 12 ELSE p.digits, others |-> 0]
\* scheduler.js:698-702  where('telefono','==',to).limit(1): the lead the
\* service logs the message on, if any
LeadByPhone(to) ==
  {l \in DOMAIN leads : leads[l].telefono = to}
\* an entry of the history: who acted, what it did, with which message
Entry(src, kind, what, d) ==
  [src |-> src, kind |-> kind, what |-> what, doc |-> d]
\* a call of sendTextMessage / sendAudioMessage / sendVideoMessage that the
\* gateway accepted (scheduler.js:689-713): the API call, then the service's
\* own message-log append when a lead has the normalized number
Sent(src, what, d, phone) ==
  << Entry(src, "send", what, d) >> \o
  (IF LeadByPhone(Normalize(phone)) # {} THEN << Entry(src, "service-log", what, d) >>
   ELSE <<>>)
GatewayFailures ==
  Cardinality({i \in 1..Len(history.sendLetras) : history.sendLetras[i].kind = "fail"})
  + Cardinality({i \in 1..Len(history.engine) : history.engine[i].kind = "fail"})
\* the senders whose gateway calls fail while the scenario is observed
GatewayMayFail(src) ==
  /\ src \in scn.failing
  /\ GatewayFailures < MaxGatewayFailures

\* ------------------------------------------------------------- lyric Deliver
\* the gate without the delay: a lyric is due as soon as it is generated
MutLetraDue(genTime, now0) ==
  ~(now0 - genTime < 0)

\* scheduler.js:312  `if (now - genTime < 15 * 60 * 1000) continue`
LetraDue(genTime, now0) ==
  ~(now0 - genTime < LETRA_DELAY_MIN)
\* scheduler.js:310
LetraComplete(d) ==
  /\ letras[d].leadId # ""
  /\ ~Falsy(letras[d].letra)
  /\ letras[d].letraGeneratedAt # NoTime
\* the pattern matched against the length of the number as stored
MutPhoneValid(p) ==
  /\ p.digits + p.others >= PHONE_MIN_DIGITS
  /\ p.digits + p.others <= PHONE_MAX_DIGITS

\* scheduler.js:322-323  /^\d{10,15}$/ on the number without non-digits
PhoneValid(p) ==
  /\ StripNonDigits(p).digits >= PHONE_MIN_DIGITS
  /\ StripNonDigits(p).digits <= PHONE_MAX_DIGITS

\* the greeting sent after the lyric
MutLetraMessages ==
  << "letra", "greeting", "audio", "video", "promo" >>

\* scheduler.js:331-365  the messages of a delivery, in the order of the code
LetraMessages ==
  << "greeting", "letra", "audio", "video", "promo" >>

SendNext ==
  IF Len(send.queue) > 1
  THEN [pc |-> "loop", queue |-> Tail(send.queue), now0 |-> send.now0, step |-> 0]
  ELSE SendIdle
\* why the loop passes over a record ("" when it delivers it)
SendSkip(d) ==
  IF ~LetraComplete(d) THEN "missing"
  ELSE IF ~LetraDue(letras[d].letraGeneratedAt, send.now0) THEN "not-due"
  ELSE IF letras[d].leadId \notin DOMAIN leads THEN "no-lead"
  ELSE IF ~PhoneValid(leads[letras[d].leadId].telefono) THEN "bad-phone"
  ELSE ""

\* scheduler.js:300-301
sendLetras_query ==
  /\ "sendLetras" \in scn.stages
  /\ send.pc = "idle"
  /\ WithLetraStatus(EnviarLetra) # {}
  /\ send' = [pc |-> "loop", queue |-> InIdOrder(WithLetraStatus(EnviarLetra)),
              now0 |-> now, step |-> 0]
  /\ ev' = EvOf("sendLetras.query", 0, "")
  /\ UNCHANGED <<scn, now, leads, letras, gen, seq, history>>
  /\ UNCHANGED <<musicVars, hook, send2>>

\* a delivery that takes up after the messages the request already got
MutFirstStep(d) ==
  (Cardinality({i \in 1..Len(history.sendLetras) :
                  /\ history.sendLetras[i].kind = "send"
                  /\ history.sendLetras[i].doc = d}) % Len(LetraMessages)) + 1

\* scheduler.js:332  the loop body starts at the greeting for every record
\* it delivers: nothing on the request says how far an earlier run came
FirstStep(d) ==
  1

\* scheduler.js:305-326  validations of one record
sendLetras_check ==
  /\ send.pc = "loop"
  /\ LET d == Head(send.queue) IN
     IF SendSkip(d) # ""
     THEN /\ send' = SendNext
          /\ ev' = EvOf("sendLetras.skip", d, SendSkip(d))
     ELSE /\ send' = [send EXCEPT !.pc = "send", !.step = FirstStep(d)]
          /\ ev' = EvOf("sendLetras.due", d, "")
  /\ UNCHANGED <<scn, now, leads, letras, gen, seq, history>>
  /\ UNCHANGED <<musicVars, hook, send2>>

\* scheduler.js:332-365  one send and its message-log append; a throw of the
\* gateway leaves the loop through the catch at 378-380
sendLetras_send ==
  /\ send.pc = "send"
  /\ LET d == Head(send.queue)
         what == LetraMessages[send.step]
         phone == StripNonDigits(leads[letras[d].leadId].telefono) IN
     \E ok \in BOOLEAN :
       IF ok
       THEN /\ history' = [history EXCEPT !.sendLetras =
                              @ \o Sent("sendLetras", what, d, phone)
                                \o << Entry("sendLetras", "log", what, d) >>]
            /\ send' = IF send.step < Len(LetraMessages)
                       THEN [send EXCEPT !.step = @ + 1]
                       ELSE [send EXCEPT !.pc = "finish"]
            /\ ev' = EvOf("sendLetras.send", d, what)
       ELSE /\ GatewayMayFail("sendLetras")
            /\ history' = [history EXCEPT !.sendLetras =
                              Append(@, Entry("sendLetras", "fail", what, d))]
            /\ send' = SendIdle
            /\ ev' = EvOf("sendLetras.throw", d, what)
  /\ UNCHANGED <<scn, now, leads, letras, gen, seq>>
  /\ UNCHANGED <<musicVars, hook, send2>>

\* scheduler.js:368-375  the tag and the sequence instance on the lead
sendLetras_tag ==
  /\ send.pc = "finish"
  /\ LET d == Head(send.queue)
         l == letras[d].leadId IN
     /\ leads' = [leads EXCEPT
                     ![l].etiquetas = @ \cup {"LetraEnviada"},
                     ![l].secuenciasActivas =
                        ArrayUnion(@, NewInstance("LetraEnviada", now))]
     /\ ev' = EvOf("sendLetras.tag", d, "")
  /\ send' = [send EXCEPT !.pc = "status"]
  /\ UNCHANGED <<scn, now, letras, gen, seq, history>>
  /\ UNCHANGED <<musicVars, hook, send2>>

\* scheduler.js:376  the status of the request
sendLetras_finish ==
  /\ send.pc = "status"
  /\ LET d == Head(send.queue) IN
     /\ letras' = [letras EXCEPT ![d].status = LetraEnviadaStatus]
     /\ ev' = EvOf("sendLetras.end", d, "")
  /\ send' = SendNext
  /\ UNCHANGED <<scn, now, leads, gen, seq, history>>
  /\ UNCHANGED <<musicVars, hook, send2>>

\* server.js:511-513  cron starts sendLetras every minute whether or not the
\* invocation of the minute before has returned.  scheduler.js:300-303: the
\* later invocation runs its query while the earlier one is between two of
\* its awaits.
sendLetras_overlap ==
  /\ "sendLetras" \in scn.stages
  /\ scn.overlap
  /\ send.pc # "idle"
  /\ send2.pc = "idle"
  /\ WithLetraStatus(EnviarLetra) # {}
  /\ send2' = [pc |-> "loop", queue |-> InIdOrder(WithLetraStatus(EnviarLetra)),
               now0 |-> now, step |-> 0]
  /\ ev' = EvOf("sendLetras.overlap", 0, "")
  /\ UNCHANGED <<scn, now, leads, letras, gen, send, seq, history, hook>>
  /\ UNCHANGED musicVars

\* scheduler.js:305  the later invocation goes on with its snapshot once the
\* earlier one has returned
sendLetras_resume ==
  /\ send.pc = "idle"
  /\ send2.pc # "idle"
  /\ send' = send2
  /\ send2' = SendIdle
  /\ ev' = EvOf("sendLetras.resume", 0, "")
  /\ UNCHANGED <<scn, now, leads, letras, gen, seq, history, hook>>
  /\ UNCHANGED musicVars

sendLetras ==
  \/ sendLetras_overlap
  \/ sendLetras_resume
  \/ sendLetras_query
  \/ sendLetras_check
  \/ sendLetras_send
  \/ sendLetras_tag
  \/ sendLetras_finish

\* ---------------------------------------------------------- sequence engine
\* A text sent by the engine is a sequence of symbols: "lit", the words and
\* separators of a name ("sp" a blank, "tab" a tab), and one symbol for a
\* phone number or a lyric.
PhoneSym(p) ==
  "tel-" \o ToString(p.digits) \o "-" \o ToString(p.others)
LetraSym(t) ==
  "letra-" \o ToString(t[1]) \o "-" \o ToString(t[2]) \o "-" \o ToString(t[3])

\* scheduler.js:57  `(leadData.nombre || '').split(' ')[0]`
SplitFirst(n) ==
  LET at == {i \in 1..Len(n) : n[i] = "sp"} IN
    IF at = {} THEN n ELSE SubSeq(n, 1, First(at) - 1)

\* scheduler.js:56-62  what a placeholder is replaced with; the lead has no
\* attribute of another name than these
FieldValue(field, lead) ==
  CASE field = "{{nombre}}" -> SplitFirst(lead.nombre)
    [] field = "{{letra}}" ->
         IF Falsy(lead.letra) THEN <<>> ELSE << LetraSym(lead.letra) >>
    [] field = "{{telefono}}" ->
         IF lead.telefono.digits + lead.telefono.others = 0 THEN <<>>
         ELSE << PhoneSym(lead.telefono) >>
    [] OTHER -> <<>>

\* scheduler.js:55  the matches of /\{\{(\w+)\}\}/ in the stored templates
Placeholders ==
  {"{{nombre}}", "{{letra}}", "{{telefono}}", "{{ciudad}}"}
\* scheduler.js:55  String.replace with a global pattern: every placeholder of
\* the template gives way to its value, the rest of the text is kept
RECURSIVE Substitute(_, _)
Substitute(template, value) ==
  IF template = <<>> THEN <<>>
  ELSE (IF Head(template) \in Placeholders THEN value[Head(template)]
        ELSE << Head(template) >>)
       \o Substitute(Tail(template), value)
\* scheduler.js:54-64
replacePlaceholders(template, leadData) ==
  Substitute(template, [f \in Placeholders |-> FieldValue(f, leadData)])
\* String.trim: blanks and tabs at the ends removed
RECURSIVE TrimText(_)
TrimText(t) ==
  IF t = <<>> THEN t
  ELSE IF t[1] \in {"sp", "tab"} THEN TrimText(Tail(t))
  ELSE IF t[Len(t)] \in {"sp", "tab"} THEN TrimText(SubSeq(t, 1, Len(t) - 1))
  ELSE t

\* String.replace with a string pattern: the first occurrence only
ReplaceFirst(text, pattern, value) ==
  LET at == {i \in 1..Len(text) : text[i] = pattern} IN
    IF at = {} THEN text
    ELSE SubSeq(text, 1, First(at) - 1) \o value \o SubSeq(text, First(at) + 1, Len(text))
\* encodeURIComponent on a name
EncodeURIComponent(n) ==
  [i \in 1..Len(n) |-> CASE n[i] = "sp" -> "%20" [] n[i] = "tab" -> "%09" [] OTHER -> n[i]]
\* scheduler.js:95-101  the text of a 'formulario' message
Formulario(raw, lead, phone) ==
  TrimText(ReplaceFirst(ReplaceFirst(raw, "{{telefono}}",
                                     IF phone.digits = 0 THEN <<>>
                                     ELSE << PhoneSym(phone) >>),
                        "{{nombre}}", EncodeURIComponent(lead.nombre)))

\* scheduler.js:13-18  tabs and line breaks to blanks, runs of blanks to one,
\* blanks at the ends removed
RECURSIVE Collapse(_)
Collapse(t) ==
  IF Len(t) < 2 THEN t
  ELSE IF t[1] = "sp" /\ t[2] = "sp" THEN Collapse(Tail(t))
  ELSE << t[1] >> \o Collapse(Tail(t))
RECURSIVE TrimBlanks(_)
TrimBlanks(t) ==
  IF t = <<>> THEN t
  ELSE IF t[1] = "sp" THEN TrimBlanks(Tail(t))
  ELSE IF t[Len(t)] = "sp" THEN TrimBlanks(SubSeq(t, 1, Len(t) - 1))
  ELSE t
sanitizeParam(text) ==
  TrimBlanks(Collapse([i \in 1..Len(text) |-> IF text[i] = "tab" THEN "sp" ELSE text[i]]))

\* scheduler.js:83  `lead.letraIds[0]`
LetraId(ids) ==
  ids[1]

\* scheduler.js:77-86  before a template with {{letra}} in a parameter is
\* sent, lead.letra is replaced by the lyric of the request the lead's
\* letraIds names, '' when 'letras' has no such document
LeadForMessage(msg, lead) ==
  IF /\ msg.type = "template"
     /\ \E k \in 1..Len(msg.parameters) :
          \E i \in 1..Len(msg.parameters[k]) : msg.parameters[k][i] = "{{letra}}"
     /\ lead.letraIds # <<>>
  THEN LET id == LetraId(lead.letraIds) IN
         [lead EXCEPT !.letra = IF id[1] = "letras" /\ id[2] \in LetraDocs
                                THEN letras[id[2]].letra ELSE EmptyText]
  ELSE lead

\* scheduler.js:88-141  what enviarMensaje hands to the gateway for a message
MessageContent(msg, lead) ==
  CASE msg.type = "texto" -> TrimText(replacePlaceholders(msg.contenido, lead))
    [] msg.type = "formulario" ->
         Formulario(msg.contenido, lead, StripNonDigits(lead.telefono))
    [] msg.type \in {"audio", "imagen", "video"} -> replacePlaceholders(msg.contenido, lead)
    [] msg.type = "template" ->
         [k \in 1..Len(msg.parameters) |->
            sanitizeParam(replacePlaceholders(msg.parameters[k], LeadForMessage(msg, lead)))]
    [] OTHER -> <<>>
\* scheduler.js:91, 102  `if (content) await sendTextMessage(...)`
CallsGateway(msg, lead) ==
  /\ msg.type \in {"texto", "formulario", "audio", "imagen", "video", "template"}
  /\ msg.type \in {"texto", "formulario"} => MessageContent(msg, lead) # <<>>
\* the gateway call of the engine for a step, with what it sent
Dispatched(trigger, index, content) ==
  [src |-> "engine", kind |-> "send", what |-> trigger, doc |-> index, content |-> content]

\* scheduler.js:72-164  enviarMensaje: what reaches the gateway and the message
\* log for a step of the given type; a throw of the gateway is caught at 161
EnviarMensaje(msg, trigger, index, lead, ok) ==
  IF ~CallsGateway(msg, lead)
  THEN <<>>
  ELSE IF ~ok
  THEN << Entry("engine", "fail", trigger, index) >>
  ELSE IF msg.type = "template"
  THEN << Dispatched(trigger, index, MessageContent(msg, lead)),
          Entry("engine", "template-log", trigger, index) >>
  ELSE << Dispatched(trigger, index, MessageContent(msg, lead)) >>
       \o Tail(Sent("engine", trigger, index, StripNonDigits(lead.telefono)))

\* the delay of the step left out
MutSendAt(startTime, delay) ==
  startTime

\* scheduler.js:202  `new Date(startTime).getTime() + msg.delay * 60000`
SendAt(startTime, delay) ==
  startTime + delay

\* the comparison made strict: a tick exactly at sendAt does not send
MutSeqDue(sendAt, now0) ==
  now0 > sendAt

\* scheduler.js:203  `if (Date.now() < sendAt) continue`
SeqDue(sendAt, now0) ==
  ~(now0 < sendAt)

\* the index kept when the dispatch failed
MutNextIndex(index, ok) ==
  IF ok THEN index + 1 ELSE index

\* scheduler.js:217  `seq.index++`, whatever enviarMensaje did
\* an engine that passes over the step after the one it dispatched
MutNextIndexSkip(index, ok) ==
  index + 2

NextIndex(index, ok) ==
  index + 1

\* lead.secuenciasActivas as the invocation holds it after the read
Snapshot(arr) ==
  [k \in 1..Len(arr) |-> [trigger |-> arr[k].trigger, startTime |-> arr[k].startTime,
                          index |-> arr[k].index, completed |-> FALSE]]
Stored(inst) ==
  [trigger |-> inst.trigger, startTime |-> inst.startTime, index |-> inst.index]
RECURSIVE StoredAll(_)
StoredAll(list) ==
  IF list = <<>> THEN <<>> ELSE << Stored(Head(list)) >> \o StoredAll(Tail(list))

\* the list written back without the instances that have no definition either
MutRemaining(list) ==
  StoredAll(SelectSeq(list, LAMBDA i : ~i.completed /\ SeqDefined(i.trigger)))

\* scheduler.js:222  `lead.secuenciasActivas.filter(s => !s.completed)`
Remaining(list) ==
  StoredAll(SelectSeq(list, LAMBDA i : ~i.completed))

\* scheduler.js:173-183  the query and the read of the lead (the collection
\* holds one lead)
processSequences_query ==
  /\ "sequences" \in scn.stages
  /\ seq.pc = "idle"
  /\ \E l \in DOMAIN leads :
       /\ leads[l].secuenciasActivas # <<>>
       /\ seq' = [pc |-> "loop", lead |-> l, list |-> Snapshot(leads[l].secuenciasActivas),
                  k |-> 1, dirty |-> FALSE, waited |-> {}, data |-> leads[l]]
  /\ ev' = EvOf("processSequences.query", 0, "")
  /\ UNCHANGED <<scn, now, leads, letras, gen, send, history>>
  /\ UNCHANGED <<musicVars, hook, send2>>

\* scheduler.js:186-219  one instance of the loop
processSequences_instance ==
  /\ seq.pc = "loop"
  /\ LET inst == seq.list[seq.k]
         msgs == SeqMessages(inst.trigger)
         after == IF seq.k < Len(seq.list) THEN "loop" ELSE "write" IN
     IF ~SeqDefined(inst.trigger)
     THEN /\ seq' = [seq EXCEPT !.k = @ + 1, !.pc = after]
          /\ ev' = EvTask("processSequences.instance", seq.k, "no-definition", inst.index)
          /\ UNCHANGED history
     ELSE IF inst.index >= Len(msgs)
     THEN /\ seq' = [seq EXCEPT !.list[seq.k].completed = TRUE, !.dirty = TRUE,
                                !.k = @ + 1, !.pc = after]
          /\ ev' = EvTask("processSequences.instance", seq.k, "completed", inst.index)
          /\ UNCHANGED history
     ELSE IF ~SeqDue(SendAt(inst.startTime, msgs[inst.index + 1].delay), now)
     THEN /\ seq' = [seq EXCEPT !.k = @ + 1, !.pc = after, !.waited = @ \cup {seq.k}]
          /\ ev' = EvTask("processSequences.instance", seq.k, "waiting", inst.index)
          /\ UNCHANGED history
     ELSE \E ok \in BOOLEAN :
            /\ ok \/ (GatewayMayFail("engine") /\ CallsGateway(msgs[inst.index + 1], seq.data))
            /\ history' = [history EXCEPT !.engine =
                              @ \o EnviarMensaje(msgs[inst.index + 1], inst.trigger,
                                                 inst.index, seq.data, ok)
                                \o << Entry("engine", "log", inst.trigger, inst.index) >>]
            /\ seq' = [seq EXCEPT !.list[seq.k].index = NextIndex(inst.index, ok),
                                  !.dirty = TRUE, !.k = @ + 1, !.pc = after,
                                  !.data = LeadForMessage(msgs[inst.index + 1], seq.data)]
            /\ ev' = EvTask("processSequences.instance", seq.k,
                            IF ok THEN "sent" ELSE "failed", inst.index)
  /\ UNCHANGED <<scn, now, leads, letras, gen, send>>
  /\ UNCHANGED <<musicVars, hook, send2>>

\* scheduler.js:221-224  the list without the completed instances written back
processSequences_write ==
  /\ seq.pc = "write"
  /\ IF seq.dirty
     THEN /\ leads' = [leads EXCEPT ![seq.lead].secuenciasActivas = Remaining(seq.list)]
          /\ ev' = EvOf("processSequences.end", 0, "written")
     ELSE /\ UNCHANGED leads
          /\ ev' = EvOf("processSequences.end", 0, "clean")
  /\ seq' = SeqIdle
  /\ UNCHANGED <<scn, now, letras, gen, send, history>>
  /\ UNCHANGED <<musicVars, hook, send2>>

processSequences ==
  \/ processSequences_query
  \/ processSequences_instance
  \/ processSequences_write

\* ------------------------------------------------------- inbound messages
\* msg.from of the inbound messages: the number of the lead of the collection
\* and a number no lead has
InboundFrom ==
  {[digits |-> 13, others |-> 0], [digits |-> 12, others |-> 0]}
\* the id the store gives to a document added to 'leads'
NewLeadId ==
  "W" \o ToString(Cardinality(DOMAIN leads \ LeadIds) + 1)

\* server.js:358-361  where('telefono','==',from).limit(1).get()
webhook_lookup(h, from) ==
  /\ "webhook" \in scn.stages
  /\ hook.run[h].pc = "idle"
  /\ hook.received < MaxInbound
  /\ hook' = [run |-> [hook.run EXCEPT ![h] =
                         [pc |-> "upsert", from |-> from,
                          found |-> IF LeadByPhone(from) = {} THEN ""
                                    ELSE CHOOSE l \in LeadByPhone(from) : TRUE]],
              received |-> hook.received + 1]
  /\ ev' = EvOf("webhook.lookup", 0, IF LeadByPhone(from) = {} THEN "empty" ELSE "found")
  /\ UNCHANGED <<scn, now, leads, letras, gen, send, send2, seq, history>>
  /\ UNCHANGED musicVars

\* server.js:363-387  the lead is added when the lookup was empty, updated
\* otherwise
webhook_upsert(h) ==
  /\ hook.run[h].pc = "upsert"
  /\ IF hook.run[h].found = ""
     THEN /\ leads' = [l \in DOMAIN leads \cup {NewLeadId} |->
                         IF l \in DOMAIN leads THEN leads[l]
                         ELSE [NewLead EXCEPT
                                 !.telefono = hook.run[h].from,
                                 !.etiquetas = {"NuevoLead"},
                                 !.secuenciasActivas = << NewInstance("NuevoLead", now) >>,
                                 !.unreadCount = 1]]
          /\ hook' = [hook EXCEPT !.run[h].pc = "message", !.run[h].found = NewLeadId]
          /\ ev' = EvOf("webhook.upsert", 0, "added")
     ELSE /\ leads' = [leads EXCEPT ![hook.run[h].found].unreadCount = @ + 1]
          /\ hook' = [hook EXCEPT !.run[h].pc = "message"]
          /\ ev' = EvOf("webhook.upsert", 0, "updated")
  /\ UNCHANGED <<scn, now, letras, gen, send, send2, seq, history>>
  /\ UNCHANGED musicVars

\* server.js:390-400  the message stored in the lead's subcollection
webhook_message(h) ==
  /\ hook.run[h].pc = "message"
  /\ history' = [history EXCEPT !.webhook =
                    Append(@, Entry("webhook", "log", hook.run[h].found, 0))]
  /\ hook' = [hook EXCEPT !.run[h] = HookIdle]
  /\ ev' = EvOf("webhook.end", 0, "200")
  /\ UNCHANGED <<scn, now, leads, letras, gen, send, send2, seq>>
  /\ UNCHANGED musicVars

webhook(h) ==
  \/ \E from \in InboundFrom : webhook_lookup(h, from)
  \/ webhook_upsert(h)
  \/ webhook_message(h)

\* ------------------------------------------------------------------- clock
Tick ==
  /\ "tick" \in scn.stages
  /\ now + TimeStep <= MaxTime
  /\ now' = now + TimeStep
  /\ ev' = EvOf("tick", 0, "")
  /\ UNCHANGED <<scn, musica, leads, tasks, launch, cb, clipRun, deliver, outbox, cbCount>>
  /\ UNCHANGED crmVars

\* ------------------------------------------------ cron driver and the route
\* server.js:517-532 (current), part_000:442-455 (legacy)
Next ==
  \/ generarLetraParaMusica
  \/ generarPromptParaMusica
  \/ \E i \in Launchers : generarMusicaConSuno(i)
  \/ \E t \in CallbackTasks, p \in scn.payloads : sunoCallback_receive(t, p)
  \/ sunoCallback_finish
  \/ \E t \in CallbackTasks, p \in scn.payloads : sunoCallbackLegacy(t, p)
  \/ procesarClips_start
  \/ procesarClips_finish
  \/ retryStuckMusic(STUCK_MINUTES)
  \/ enviarMusicaPorWhatsApp
  \/ generateLetras
  \/ sendLetras
  \/ processSequences
  \/ \E h \in Handlers : webhook(h)
  \/ Tick

Spec ==
  Init /\ [][Next]_vars

\* The deployment in which no callback of the provider arrives: Launch and the
\* Reaper alone work on the records.  server.js:526, 532: cron fires each of
\* them again and again, and an invocation that has started runs to its end.
LiveInit ==
  Init /\ scn.name = "launch"
LiveNext ==
  \/ \E i \in Launchers : generarMusicaConSuno(i)
  \/ retryStuckMusic(STUCK_MINUTES)
  \/ Tick
LiveSpec ==
  /\ LiveInit
  /\ [][LiveNext]_vars
  /\ WF_vars(\E i \in Launchers : generarMusicaConSuno(i))
  /\ WF_vars(retryStuckMusic(STUCK_MINUTES))
  /\ WF_vars(Tick)

\* The deployment in which Deliver alone works on records that are ready to
\* send, and the gateway accepts every message: cron fires Deliver again and
\* again, and an invocation that has started runs to its end.
DeliverWorking ==
  /\ enviarMusicaPorWhatsApp
  /\ ev'.out # "throw" \/ ev'.op = "enviarMusicaPorWhatsApp.end"
DeliverLiveInit ==
  Init /\ scn.name = "deliver-missing"
DeliverLiveNext ==
  \/ DeliverWorking
  \/ Tick
DeliverLiveSpec ==
  /\ DeliverLiveInit
  /\ [][DeliverLiveNext]_vars
  /\ WF_vars(DeliverWorking)
  /\ WF_vars(Tick)

\* ================================================================== claims

\* C1: two invocations of generarMusicaConSuno that selected the same Music
\* Request from the same pre-state (the provider held the same number of
\* submissions for it when each ran its query) never both submit a task for it.
C1_NoDuplicateSubmission ==
  \A t1, t2 \in 1..Len(tasks) :
    (t1 # t2 /\ tasks[t1].doc = tasks[t2].doc) => tasks[t1].seen # tasks[t2].seen

\* C2: when an invocation of generarMusicaConSuno that picked a record ends, the
\* record is 'Procesando música' with the provider's task id stored if the
\* submission succeeded, and 'Error música' with an error message stored if the
\* submission threw, returned a non-success code or returned no task id.
C2_LaunchEndsInOneOfTwoStates ==
  ev.op = "generarMusicaConSuno.end" =>
    IF ev.out = "ok"
    THEN /\ musica[ev.doc].status = Procesando
         /\ ev.task # NoTask
         /\ musica[ev.doc].taskId = ev.task
    ELSE /\ musica[ev.doc].status = ErrorMusica
         /\ musica[ev.doc].errorMsg # ""

\* C3: once the handler has answered a completion callback for the task id a
\* record stores, the record is 'Audio listo' if the callback carried an audio
\* url and 'Error música' if it carried an error instead.
C3_CallbackMovesRecord ==
  \A d \in Docs :
    /\ (ev.op \in {"sunoCallback.end", "sunoCallbackLegacy"} /\ ev.doc = d
          /\ ev.out \in {"200", "200-audio"})
         => musica[d].status = AudioListo
    /\ (ev.op \in {"sunoCallback", "sunoCallbackLegacy"} /\ ev.out = "200-error"
          /\ ev.task # NoTask /\ musica[d].taskId = ev.task)
         => musica[d].status = ErrorMusica

\* C4: a run of retryStuckMusic(10) resets a record if and only if it is
\* 'Procesando música' with a generation timestamp more than 10 minutes old;
\* a reset sets 'Sin música' and clears taskId and errorMsg; every other
\* record, a 'Procesando música' one at or inside the threshold included, is
\* left as it was.
C4_ReaperResetsExactlyTheStuck ==
  [][ ev'.op = "retryStuckMusic" =>
        \A d \in Docs :
          IF /\ musica[d].status = Procesando
             /\ musica[d].generatedAt # NoTime
             /\ now - musica[d].generatedAt > STUCK_MINUTES
          THEN musica'[d] = [musica[d] EXCEPT !.status = SinMusica,
                                              !.taskId = NoTask, !.errorMsg = ""]
          ELSE musica'[d] = musica[d] ]_vars

\* C4 witness: a run has just reset a record whose generation timestamp is
\* more than 10 minutes old.
C4_ResetHappened ==
  /\ ev.op = "retryStuckMusic"
  /\ ev.out = "reset"
  /\ \E d \in Docs : /\ musica[d].status = SinMusica
                     /\ musica[d].taskId = NoTask
                     /\ musica[d].generatedAt # NoTime
                     /\ now - musica[d].generatedAt > STUCK_MINUTES

\* C5: a record in an error status keeps that status in every step.
C5_ErrorStatusIsFinal ==
  [][ \A d \in Docs :
        musica[d].status \in ErrorStatuses => musica'[d].status = musica[d].status ]_vars

\* C6: when enviarMusicaPorWhatsApp is done with a record that entered the
\* pipeline at 'Sin letra' and is now 'Enviada', the record has a clip url and a
\* sent timestamp and its lead holds a 'CancionEnviada' instance with index 0.
C6_RoundTripLeavesSequence ==
  \A d \in Docs :
    (/\ InitMusic(scn, d).status = SinLetra
     /\ ev.op = "enviarMusicaPorWhatsApp.end"
     /\ ev.doc = d
     /\ musica[d].status = Enviada)
      => /\ musica[d].clipUrl # ""
         /\ musica[d].sentAt # NoTime
         /\ musica[d].leadId \in DOMAIN leads
         /\ \E k \in 1..Len(leads[musica[d].leadId].secuenciasActivas) :
              /\ leads[musica[d].leadId].secuenciasActivas[k].trigger = "CancionEnviada"
              /\ leads[musica[d].leadId].secuenciasActivas[k].index = 0

C8_DeliverGate ==
  /\ [][ (deliver.pc = "loop" /\ deliver' # deliver) =>
           LET d == Head(deliver.queue)
               age == deliver.now0 - musica[d].createdAt
           IN /\ (musica[d].createdAt # NoTime /\ age < DELIVER_DELAY_MIN)
                   => /\ ev'.op = "enviarMusicaPorWhatsApp.skip"
                      /\ UNCHANGED <<musica, leads, outbox>>
              /\ (/\ musica[d].createdAt # NoTime
                  /\ age >= DELIVER_DELAY_MIN
                  /\ musica[d].leadPhone.digits > 0
                  /\ Length(musica[d].lyrics) > 0
                  /\ musica[d].clipUrl # "")
                   => /\ ev'.op = "enviarMusicaPorWhatsApp.letra"
                      /\ ev'.out = "sent"
                           => /\ outbox'[d].letra = outbox[d].letra + 1
                              /\ deliver'.pc = "clip" ]_vars
  /\ [][ (deliver.pc = "clip" /\ deliver' # deliver /\ ev'.out = "sent")
           => /\ outbox'[ev'.doc].clip = outbox[ev'.doc].clip + 1
              /\ deliver'.pc = "mark" ]_vars
  /\ [][ (deliver.pc = "mark" /\ deliver' # deliver)
           => /\ musica'[Head(deliver.queue)].status = Enviada
              /\ musica'[Head(deliver.queue)].sentAt = now ]_vars

\* C8 witness: a record exactly 15 minutes old has been sent and marked.
C8_SentAtFifteenMinutes ==
  /\ ev.op = "enviarMusicaPorWhatsApp.mark"
  /\ deliver.now0 - musica[ev.doc].createdAt = DELIVER_DELAY_MIN
  /\ musica[ev.doc].status = Enviada
  /\ musica[ev.doc].sentAt # NoTime
  /\ outbox[ev.doc].letra > 0
  /\ outbox[ev.doc].clip > 0

\* C9: generarLetraParaMusica takes its record from 'Sin letra'; when the
\* adapter returns a lyric the record becomes 'Sin prompt' with the lyric
\* stored; when the adapter throws or returns empty or blank text nothing is
\* written, the record stays 'Sin letra' and is the one the next query selects.
C9_LetraOrUnchanged ==
  /\ [][ ev'.op = "generarLetraParaMusica" =>
           LET d == ev'.doc
           IN /\ musica[d].status = SinLetra
              /\ IF ev'.out = "text"
                 THEN /\ musica'[d].status = SinPrompt
                      /\ Length(musica'[d].lyrics) > 0
                 ELSE UNCHANGED <<musica, leads>> ]_vars
  /\ []((ev.op = "generarLetraParaMusica" /\ ev.out # "text")
          => /\ musica[ev.doc].status = SinLetra
             /\ First(WithStatus(SinLetra)) = ev.doc)

\* C9 witness: the adapter returned only blanks for a record, which is still
\* 'Sin letra' without lyrics and first in line.
C9_BlankReplyLeftRecord ==
  /\ ev.op = "generarLetraParaMusica"
  /\ ev.out = "blank"
  /\ musica[ev.doc].status = SinLetra
  /\ Length(musica[ev.doc].lyrics) = 0
  /\ First(WithStatus(SinLetra)) = ev.doc

\* C10: a record generarPromptParaMusica has just moved to 'Sin música' has a
\* stored style prompt of at most 120 characters.
C10_StylePromptWithinLimit ==
  (ev.op = "generarPromptParaMusica" /\ ev.out = "text")
    => /\ musica[ev.doc].status = SinMusica
       /\ Length(musica[ev.doc].stylePrompt) <= STYLE_LIMIT

\* the dispatches (gateway calls, accepted or failed) of step `index` of the
\* sequence `trigger` in the engine's history h
Dispatches(h, trigger, index) ==
  {i \in 1..Len(h) :
     /\ h[i].kind \in {"send", "fail"}
     /\ h[i].what = trigger
     /\ h[i].doc = index}

\* C11 as stated: an invocation of processSequences that passed over an
\* instance as not yet due does not write the Lead.
C11_WaitingTickDoesNotWrite ==
  [][ (seq.pc = "write" /\ seq'.pc = "idle" /\ seq.waited # {}) => leads' = leads ]_vars

\* C11 amended: for an instance with a definition and an index within range,
\* with sendAt = startTime + delay of its step: a tick before sendAt sends
\* nothing for it and leaves its index unchanged, and the list the tick writes,
\* if another instance made it write, holds the instance as it was; a tick that
\* changed no instance does not write the Lead; a tick at or after sendAt
\* dispatches that step once and advances the index by one; no step is
\* dispatched twice.
C11_SendAtGate ==
  /\ [][ (seq.pc = "loop" /\ seq' # seq) =>
           LET k == seq.k
               inst == seq.list[k]
               msgs == SeqMessages(inst.trigger)
           IN (SeqDefined(inst.trigger) /\ inst.index < Len(msgs)) =>
                IF now < inst.startTime + msgs[inst.index + 1].delay
                THEN /\ history' = history
                     /\ seq'.list[k] = inst
                     /\ k \in seq'.waited
                     /\ leads' = leads
                ELSE /\ Cardinality(Dispatches(history'.engine, inst.trigger, inst.index)) =
                          Cardinality(Dispatches(history.engine, inst.trigger, inst.index)) + 1
                     /\ seq'.list[k].index = inst.index + 1
                     /\ seq'.list[k].startTime = inst.startTime ]_vars
  /\ [][ (seq.pc = "write" /\ seq'.pc = "idle") =>
           /\ \A k \in seq.waited :
                \/ leads' = leads
                \/ \E j \in 1..Len(leads'[seq.lead].secuenciasActivas) :
                     leads'[seq.lead].secuenciasActivas[j] = Stored(seq.list[k])
           /\ ~seq.dirty => leads' = leads ]_vars
  /\ [](\A i, j \in 1..Len(history.engine) :
          (/\ i # j
           /\ history.engine[i].kind \in {"send", "fail"}
           /\ history.engine[j].kind \in {"send", "fail"}
           /\ history.engine[i].what = history.engine[j].what)
            => history.engine[i].doc # history.engine[j].doc)

\* C11 witness: the step of 'CancionEnviada', whose delay is 10 minutes, has
\* just been sent by a tick exactly at sendAt, ticks before it having waited.
C11_SentAtSendAt ==
  /\ ev.op = "processSequences.instance"
  /\ ev.out = "sent"
  /\ seq.pc \in {"loop", "write"}
  /\ seq.list[ev.doc].trigger = "CancionEnviada"
  /\ seq.list[ev.doc].index = 1
  /\ now = seq.list[ev.doc].startTime + 10
  /\ Dispatches(history.engine, "CancionEnviada", 0) # {}

\* the instances of a trigger in the list stored on lead l
StoredInstances(l, trigger) ==
  {j \in 1..Len(leads[l].secuenciasActivas) :
     leads[l].secuenciasActivas[j].trigger = trigger}

\* C12 as stated: when the tick that sent the single step of 'NuevoLead' ends,
\* the instance is gone from the Lead's stored list.
C12_FirstTickPrunes ==
  (ev.op = "processSequences.end" /\ Dispatches(history.engine, "NuevoLead", 0) # {})
    => StoredInstances("L1", "NuevoLead") = {}

\* C12 amended: the first tick at or after T dispatches the single step of
\* 'NuevoLead' and stores the instance with index 1; the tick that next
\* evaluates the instance sends nothing for it, marks it completed, and writes
\* the Lead's list without it.
C12_SecondTickPrunes ==
  /\ [][ (seq.pc = "loop" /\ seq' # seq /\ seq.list[seq.k].trigger = "NuevoLead") =>
           LET k == seq.k
               inst == seq.list[k]
           IN IF inst.index = 0
              THEN (now >= inst.startTime) =>
                     /\ Cardinality(Dispatches(history.engine, "NuevoLead", 0)) = 0
                     /\ Cardinality(Dispatches(history'.engine, "NuevoLead", 0)) = 1
                     /\ seq'.list[k].index = 1
                     /\ ~seq'.list[k].completed
              ELSE /\ history' = history
                   /\ seq'.list[k].completed ]_vars
  /\ [][ (seq.pc = "write" /\ seq'.pc = "idle") =>
           \A k \in 1..Len(seq.list) :
             seq.list[k].trigger = "NuevoLead" =>
               IF seq.list[k].completed
               THEN StoredInstances("L1", "NuevoLead")' = {}
               ELSE \E j \in StoredInstances("L1", "NuevoLead")' :
                      leads'["L1"].secuenciasActivas[j] =
                        [trigger |-> "NuevoLead", startTime |-> seq.list[k].startTime,
                         index |-> 1] ]_vars

\* C12 witness: the step was sent by an earlier tick and the tick that has
\* just ended wrote the list without the instance.
C12_InstancePruned ==
  /\ ev.op = "processSequences.end"
  /\ ev.out = "written"
  /\ Cardinality(Dispatches(history.engine, "NuevoLead", 0)) = 1
  /\ StoredInstances("L1", "NuevoLead") = {}
  /\ scn.name = "sequences"

\* the instances of the list arr, each named by its trigger and start time
Instances(arr) ==
  {<<arr[j].trigger, arr[j].startTime>> : j \in 1..Len(arr)}

\* C13: an instance whose index is at or past the number of steps of its
\* definition is marked completed and nothing is sent for it; the list on the
\* Lead after the tick's write does not hold that instance and holds every
\* other instance the Lead held before the write.
C13_CompletedPrunedOthersKept ==
  /\ [][ (seq.pc = "loop" /\ seq' # seq) =>
           LET inst == seq.list[seq.k] IN
           (SeqDefined(inst.trigger) /\ inst.index >= Len(SeqMessages(inst.trigger)))
             => /\ history' = history
                /\ seq'.list[seq.k].completed ]_vars
  /\ [][ (seq.pc = "write" /\ seq'.pc = "idle") =>
           LET done == Instances(SelectSeq(seq.list, LAMBDA i : i.completed))
           IN done # {} =>
                /\ Instances(leads'[seq.lead].secuenciasActivas) \cap done = {}
                /\ Instances(leads[seq.lead].secuenciasActivas) \ done
                     \subseteq Instances(leads'[seq.lead].secuenciasActivas) ]_vars

\* the positions of the engine's history where a dispatch failed
FailedDispatches ==
  {i \in 1..Len(history.engine) : history.engine[i].kind = "fail"}

\* C14: when the gateway fails while a due step is dispatched, the loop goes
\* on with the next instance, the index of the instance is advanced by one, the
\* write at the end of the tick stores the advanced index, and the step is not
\* dispatched a second time.
C14_FailedStepIsNotRetried ==
  /\ [][ (seq.pc = "loop" /\ seq' # seq /\ ev'.out = "failed") =>
           /\ seq'.list[seq.k].index = seq.list[seq.k].index + 1
           /\ seq'.dirty
           /\ seq'.k = seq.k + 1
           /\ seq'.pc \in {"loop", "write"}
           /\ Len(history'.engine) = Len(history.engine) + 2
           /\ history'.engine[Len(history.engine) + 1].kind = "fail"
           /\ history'.engine[Len(history.engine) + 2].kind = "log" ]_vars
  /\ [][ (seq.pc = "write" /\ seq'.pc = "idle" /\ seq.dirty) =>
           \A k \in 1..Len(seq.list) :
             ~seq.list[k].completed =>
               \E j \in 1..Len(leads'[seq.lead].secuenciasActivas) :
                 leads'[seq.lead].secuenciasActivas[j] = Stored(seq.list[k]) ]_vars
  /\ [](\A i \in FailedDispatches :
          Dispatches(history.engine, history.engine[i].what, history.engine[i].doc) = {i})

\* C14 witness: the dispatch of the step of 'NuevoLead' failed, a later tick
\* has evaluated the instance again and pruned it, and the step was dispatched
\* that one time only.
C14_FailedThenPruned ==
  /\ \E i \in FailedDispatches : /\ history.engine[i].what = "NuevoLead"
                                 /\ history.engine[i].doc = 0
  /\ Cardinality(Dispatches(history.engine, "NuevoLead", 0)) = 1
  /\ StoredInstances("L1", "NuevoLead") = {}
  /\ seq.pc = "idle"

\* C15: an instance appended to the Lead between the engine's read of the Lead
\* and its write of the remaining list is still on the Lead after the write.
C15_WriteKeepsConcurrentEnqueues ==
  [][ (seq.pc = "write" /\ seq'.pc = "idle") =>
        (Instances(leads[seq.lead].secuenciasActivas) \ Instances(seq.list))
          \subseteq Instances(leads'[seq.lead].secuenciasActivas) ]_vars

\* C16: a failure while one record is processed does not end the invocation:
\* a step of generateLetras or sendLetras on a record that is not the last of
\* the snapshot leaves the processor in its loop, at that record or the next,
\* and a step of the engine on an instance leaves it in its loop or at its
\* write.
C16_FailureCaughtPerRecord ==
  /\ [][ (gen.pc = "loop" /\ gen' # gen /\ Len(gen.queue) > 1) =>
           gen' = [gen EXCEPT !.queue = Tail(gen.queue)] ]_vars
  /\ [][ (send.pc \in {"loop", "send", "finish", "status"} /\ send' # send
            /\ Len(send.queue) > 1) =>
           /\ send'.pc # "idle"
           /\ send'.queue \in {send.queue, Tail(send.queue)} ]_vars
  /\ [][ (seq.pc = "loop" /\ seq' # seq) => seq'.pc \in {"loop", "write"} ]_vars

\* C17: when the text adapter fails or returns no text for a request in
\* 'Sin letra', the step changes neither the request nor any lead, the
\* request is still in 'Sin letra', and every query of generateLetras selects
\* every request that is in 'Sin letra', however often it has been tried.
C17_FailedLetraIsRetried ==
  /\ [][ (gen.pc = "loop" /\ gen' # gen
            /\ ev'.out \in {"threw", "empty", "blank"}) =>
           /\ letras' = letras
           /\ leads' = leads
           /\ letras'[Head(gen.queue)].status = SinLetra ]_vars
  /\ [][ (gen.pc = "loop" /\ gen' # gen /\ letras' # letras) =>
           ev'.out = "text" ]_vars
  /\ [][ (gen.pc = "idle" /\ gen'.pc = "loop") =>
           \A d \in LetraDocs :
             letras[d].status = SinLetra =>
               \E j \in 1..Len(gen'.queue) : gen'.queue[j] = d ]_vars

\* C17 witness: the step on a request ended without a text and the request is
\* in 'Sin letra', open to the next query
C17_LetraFailedStillSinLetra ==
  /\ ev.op = "generateLetras"
  /\ ev.out \in {"threw", "empty", "blank"}
  /\ letras[ev.doc].status = SinLetra
  /\ letras[ev.doc].letra = EmptyText

\* the requests of the invocation's snapshot that it has made ready for the
\* given lead, in the order of the loop
MadeReady(snap, docs, l) ==
  SelectSeq(snap, LAMBDA d : docs[d].status # SinLetra /\ docs[d].leadId = l)

\* C18 as stated: when an invocation of generateLetras ends, the lead of every
\* request it made ready holds the lyric text of that request and its id.
C18_LeadHoldsEveryLetra ==
  [][ (gen.pc = "loop" /\ gen'.pc = "idle") =>
        \A l \in LeadIds :
          \A j \in 1..Len(MadeReady(gen.snap, letras', l)) :
            LET d == MadeReady(gen.snap, letras', l)[j] IN
              /\ leads'[l].letra = letras'[d].letra
              /\ \E k \in 1..Len(leads'[l].letraIds) :
                   leads'[l].letraIds[k] = <<"letras", d>> ]_vars

\* C18: a request in 'enviarLetra' has a non-empty lyric text and a generation
\* time; the step that makes a request of an existing lead ready copies the
\* text to the lead and adds the id to its letraIds; when the invocation ends
\* the lead has the id of every request the invocation made ready for it and
\* holds the text of the last of them.
C18_LeadHoldsLastLetra ==
  /\ [](\A d \in LetraDocs :
          letras[d].status = EnviarLetra =>
            /\ ~Falsy(letras[d].letra)
            /\ letras[d].letraGeneratedAt # NoTime)
  /\ [][ (gen.pc = "loop" /\ gen' # gen /\ ev'.out = "text") =>
           LET d == Head(gen.queue)
               l == letras[d].leadId IN
             /\ letras'[d].status = EnviarLetra
             /\ letras'[d].letra = Trim(letras'[d].letra)
             /\ letras'[d].letraGeneratedAt = now
             /\ l \in DOMAIN leads =>
                  /\ leads'[l].letra = letras'[d].letra
                  /\ \E k \in 1..Len(leads'[l].letraIds) :
                       leads'[l].letraIds[k] = <<"letras", d>> ]_vars
  /\ [][ (gen.pc = "loop" /\ gen'.pc = "idle") =>
           \A l \in LeadIds :
             LET made == MadeReady(gen.snap, letras', l) IN
               /\ \A j \in 1..Len(made) :
                    \E k \in 1..Len(leads'[l].letraIds) :
                      leads'[l].letraIds[k] = <<"letras", made[j]>>
               /\ made # <<>> =>
                    leads'[l].letra = letras'[made[Len(made)]].letra ]_vars

\* C18 witness: an invocation has made both requests of the lead ready, with
\* different lyrics; the lead has both ids and the text of the second.
C18_TwoLetrasOneLead ==
  /\ gen.pc = "idle"
  /\ ev.op = "generateLetras"
  /\ \A d \in LetraDocs : letras[d].status = EnviarLetra /\ letras[d].leadId = "L1"
  /\ letras[1].letra # letras[2].letra
  /\ letras[1].letraGeneratedAt = letras[2].letraGeneratedAt
  /\ leads["L1"].letra = letras[2].letra
  /\ \A d \in LetraDocs :
       \E k \in 1..Len(leads["L1"].letraIds) : leads["L1"].letraIds[k] = <<"letras", d>>

\* the entries of the history of sendLetras that are about the given request
LetraEntries(d) ==
  {i \in 1..Len(history.sendLetras) : history.sendLetras[i].doc = d}

\* C19: while a request in 'enviarLetra' is less than 15 minutes past its
\* generation time, a step of sendLetras on it passes over it and changes
\* neither the history of sends and log entries, nor a request, nor a lead;
\* and nothing has been sent or logged for such a request, whatever number of
\* invocations have run.
C19_LetraGate ==
  /\ [][ (send.pc = "loop" /\ send' # send
            /\ letras[Head(send.queue)].status = EnviarLetra
            /\ letras[Head(send.queue)].letraGeneratedAt # NoTime
            /\ send.now0 - letras[Head(send.queue)].letraGeneratedAt < LETRA_DELAY_MIN) =>
           /\ ev'.op = "sendLetras.skip"
           /\ history' = history
           /\ letras' = letras
           /\ leads' = leads
           /\ send'.pc \in {"loop", "idle"} ]_vars
  /\ [](\A d \in LetraDocs :
          (/\ letras[d].status = EnviarLetra
           /\ letras[d].letraGeneratedAt # NoTime
           /\ now - letras[d].letraGeneratedAt < LETRA_DELAY_MIN) =>
            LetraEntries(d) = {})

\* C19 witness: an invocation has just passed over a request generated two
\* ticks earlier; nothing was sent or logged for it and its lead has no
\* 'LetraEnviada' tag.
C19_PassedOverTwice ==
  /\ ev.op = "sendLetras.skip"
  /\ ev.out = "not-due"
  /\ letras[ev.doc].status = EnviarLetra
  /\ now - letras[ev.doc].letraGeneratedAt = 2 * TimeStep
  /\ LetraEntries(ev.doc) = {}
  /\ "LetraEnviada" \notin leads["L1"].etiquetas

\* C20: sendLetras sends greeting, lyric, audio, video and promotional text in
\* that order; each accepted send is followed at once by its own log entry,
\* and every send but the greeting comes directly after the accepted send and
\* the log entry of the message before it, for the same request.
C20_LetraOrder ==
  /\ [][ (send.pc = "send" /\ send' # send /\ ev'.op = "sendLetras.send") =>
           LET order == << "greeting", "letra", "audio", "video", "promo" >>
               d == Head(send.queue)
               h == history.sendLetras
               g == history'.sendLetras IN
             /\ ev'.out = order[send.step]
             /\ Len(g) \in {Len(h) + 2, Len(h) + 3}
             /\ SubSeq(g, 1, Len(h)) = h
             /\ g[Len(h) + 1] = Entry("sendLetras", "send", order[send.step], d)
             /\ g[Len(g)] = Entry("sendLetras", "log", order[send.step], d)
             /\ send.step > 1 =>
                  h[Len(h)] = Entry("sendLetras", "log", order[send.step - 1], d) ]_vars
  /\ [](LET order == << "greeting", "letra", "audio", "video", "promo" >>
            Pos(what) == CHOOSE k \in 1..5 : order[k] = what
            h == history.sendLetras IN
          \A i \in 1..Len(h) :
            h[i].kind = "send" =>
              /\ h[i].what \in {order[k] : k \in 1..5}
              /\ \E j \in (i + 1)..Len(h) :
                   /\ h[j] = Entry("sendLetras", "log", h[i].what, h[i].doc)
                   /\ \A m \in (i + 1)..(j - 1) : h[m].kind = "service-log"
              /\ h[i].what # "greeting" =>
                   \E j \in 1..(i - 1) :
                     /\ h[j] = Entry("sendLetras", "send", order[Pos(h[i].what) - 1], h[i].doc)
                     /\ \A m \in (j + 1)..(i - 1) : h[m].kind \in {"service-log", "log"})

\* C20 witness: the promotional text of a request has just been sent and
\* logged, after the four messages before it.
C20_AllFiveSent ==
  /\ ev.op = "sendLetras.send"
  /\ ev.out = "promo"
  /\ Cardinality({i \in LetraEntries(ev.doc) : history.sendLetras[i].kind = "send"}) = 5
  /\ Cardinality({i \in LetraEntries(ev.doc) : history.sendLetras[i].kind = "log"}) = 5
  /\ history.sendLetras[Len(history.sendLetras)].kind = "log"

\* the gateway calls of sendLetras for the given request, in order
LetraCalls(h, d) ==
  SelectSeq(h, LAMBDA e : e.doc = d /\ e.kind \in {"send", "fail"})

\* C21: the status of a request becomes 'enviada' only in the step that follows
\* the update of the lead; at that step the last five gateway calls for the
\* request are the accepted sends of greeting, lyric, audio, video and
\* promotional text, and the lead has the tag 'LetraEnviada'; the update of
\* the lead, made while the request is still 'enviarLetra', leaves on the lead
\* the tag and an instance of 'LetraEnviada' with index 0 that starts now.
C21_EnviadaAfterDelivery ==
  /\ [][ \A d \in LetraDocs :
           (letras[d].status # LetraEnviadaStatus
              /\ letras'[d].status = LetraEnviadaStatus) =>
             LET calls == LetraCalls(history.sendLetras, d)
                 n == Len(calls) IN
               /\ send.pc = "status"
               /\ Head(send.queue) = d
               /\ letras[d].status = EnviarLetra
               /\ n >= 5
               /\ \A k \in 1..5 : calls[n - 5 + k].kind = "send"
               /\ << calls[n - 4].what, calls[n - 3].what, calls[n - 2].what,
                     calls[n - 1].what, calls[n].what >>
                    = << "greeting", "letra", "audio", "video", "promo" >>
               /\ history.sendLetras[Len(history.sendLetras)]
                    = Entry("sendLetras", "log", "promo", d)
               /\ "LetraEnviada" \in leads[letras[d].leadId].etiquetas ]_vars
  /\ [][ (send.pc = "finish" /\ send'.pc = "status") =>
           LET d == Head(send.queue)
               l == letras[d].leadId IN
             /\ letras' = letras
             /\ "LetraEnviada" \in leads'[l].etiquetas
             /\ \E j \in 1..Len(leads'[l].secuenciasActivas) :
                  leads'[l].secuenciasActivas[j]
                    = [trigger |-> "LetraEnviada", startTime |-> now, index |-> 0] ]_vars

\* C21 witness: a request has just become 'enviada' after its five messages;
\* the lead has the tag and the instance of 'LetraEnviada' at index 0.
C21_EnviadaReached ==
  /\ ev.op = "sendLetras.end"
  /\ letras[ev.doc].status = LetraEnviadaStatus
  /\ Len(LetraCalls(history.sendLetras, ev.doc)) >= 5
  /\ "LetraEnviada" \in leads["L1"].etiquetas
  /\ \E j \in 1..Len(leads["L1"].secuenciasActivas) :
       /\ leads["L1"].secuenciasActivas[j].trigger = "LetraEnviada"
       /\ leads["L1"].secuenciasActivas[j].index = 0

\* C22: when a send of sendLetras throws, what was sent and logged before
\* stays, the request keeps its status, and the invocation goes on with the
\* next request of its snapshot when there is one.
C22_ThrowAbortsRecordOnly ==
  [][ (send.pc = "send" /\ send' # send /\ ev'.op = "sendLetras.throw") =>
        /\ SubSeq(history'.sendLetras, 1, Len(history.sendLetras)) = history.sendLetras
        /\ letras' = letras
        /\ letras'[Head(send.queue)].status = EnviarLetra
        /\ Len(send.queue) > 1 =>
             /\ send'.pc = "loop"
             /\ send'.queue = Tail(send.queue) ]_vars

\* C23: a step of sendLetras on a request whose lead is not in the collection,
\* or whose lead has a phone that is not of 10 to 15 digits, passes over the
\* request; a step of enviarMusicaPorWhatsApp on a document without a digit in
\* its phone, without lyrics or without clip URL passes over the document; in
\* both cases nothing is sent or logged and no document and no lead changes.
C23_ValidationFailureSkips ==
  /\ [][ (send.pc = "loop" /\ send' # send
            /\ LET l == letras[Head(send.queue)].leadId IN
                 IF l \in DOMAIN leads
                 THEN leads[l].telefono.digits < 10 \/ leads[l].telefono.digits > 15
                 ELSE TRUE) =>
           /\ ev'.op = "sendLetras.skip"
           /\ history' = history
           /\ letras' = letras
           /\ leads' = leads
           /\ send'.pc \in {"loop", "idle"} ]_vars
  /\ [][ (deliver.pc = "loop" /\ deliver' # deliver
            /\ LET m == musica[Head(deliver.queue)] IN
                 \/ m.leadPhone.digits = 0
                 \/ Length(m.lyrics) = 0
                 \/ m.clipUrl = "") =>
           /\ ev'.op = "enviarMusicaPorWhatsApp.skip"
           /\ outbox' = outbox
           /\ musica' = musica
           /\ leads' = leads
           /\ deliver'.pc \in {"loop", "idle"} ]_vars

\* C23 witness: sendLetras has just passed over a request for its lead's
\* phone and nothing was sent for it
C23_BadPhoneSkipped ==
  /\ ev.op = "sendLetras.skip"
  /\ ev.out = "bad-phone"
  /\ letras[ev.doc].status = EnviarLetra
  /\ LetraEntries(ev.doc) = {}
  /\ leads["L1"].etiquetas = {}

\* C24: for a due request with lyric and lead, sendLetras goes on to the sends
\* exactly when the lead's phone has 10 to 15 digits, whatever other characters
\* it holds; a phone of 3 digits and one of 18 digits are passed over, one of
\* 13 digits is accepted.
C24_PhoneValidation ==
  [][ (send.pc = "loop" /\ send' # send
         /\ LET d == Head(send.queue) IN
              /\ letras[d].leadId \in DOMAIN leads
              /\ Length(letras[d].letra) > 0
              /\ letras[d].letraGeneratedAt # NoTime
              /\ send.now0 - letras[d].letraGeneratedAt >= 15) =>
        LET p == leads[letras[Head(send.queue)].leadId].telefono IN
          /\ (ev'.op = "sendLetras.due") <=> (p.digits >= 10 /\ p.digits <= 15)
          /\ (ev'.op = "sendLetras.skip" /\ ev'.out = "bad-phone")
               <=> (p.digits < 10 \/ p.digits > 15)
          /\ p = [digits |-> 3, others |-> 0] => ev'.op = "sendLetras.skip"
          /\ p = [digits |-> 18, others |-> 0] => ev'.op = "sendLetras.skip"
          /\ p = [digits |-> 13, others |-> 0] => ev'.op = "sendLetras.due" ]_vars

\* C24 witness: the request of a lead whose phone holds 10 digits and two
\* other characters has passed the validation
C24_PhoneWithSeparatorsAccepted ==
  /\ ev.op = "sendLetras.due"
  /\ scn.name = "letras-phones"
  /\ leads["L1"].telefono = [digits |-> 10, others |-> 2]
  /\ send.pc = "send"

\* C25: no two leads of the collection have the same phone number.
C25_OneLeadPerPhone ==
  \A l1 \in DOMAIN leads : \A l2 \in DOMAIN leads :
    leads[l1].telefono = leads[l2].telefono => l1 = l2

\* the component that takes the step named by ev.op
Component(op) ==
  CASE op = "generarLetraParaMusica" -> "letra"
    [] op = "generarPromptParaMusica" -> "prompt"
    [] op \in {"generarMusicaConSuno.select", "generarMusicaConSuno.mark",
               "lanzarTareaSuno", "generarMusicaConSuno.end"} -> "launch"
    [] op \in {"sunoCallback", "sunoCallback.end", "sunoCallbackLegacy"} -> "callback"
    [] op \in {"procesarClips", "procesarClips.end"} -> "clip"
    [] op = "retryStuckMusic" -> "reaper"
    [] op \in {"enviarMusicaPorWhatsApp.query", "enviarMusicaPorWhatsApp.skip",
               "enviarMusicaPorWhatsApp.letra", "enviarMusicaPorWhatsApp.clip",
               "enviarMusicaPorWhatsApp.mark", "enviarMusicaPorWhatsApp.end"} -> "deliver"
    [] OTHER -> "other"

\* C26: every change of the status of a Music Request is made by the one
\* component that owns the edge: the stage that reads the from-status owns
\* the edges out of it, the callback and the Reaper own the edges out of
\* 'Procesando música', and any other edge belongs to the callback, which
\* writes without reading the status.
C26_OneWriterPerEdge ==
  [][ \A d \in Docs :
        musica'[d].status # musica[d].status =>
          LET a == musica[d].status
              b == musica'[d].status
              owner == CASE a = SinLetra /\ b = SinPrompt -> "letra"
                         [] a = SinPrompt /\ b = SinMusica -> "prompt"
                         [] a = SinMusica /\ b \in {Procesando, ErrorMusica} -> "launch"
                         [] a = Procesando /\ b = SinMusica -> "reaper"
                         [] a = Procesando /\ b \in {AudioListo, EnviarMusica, ErrorMusica}
                              -> "callback"
                         [] a = AudioListo /\ b \in {GenerandoClip, "error-download-full"}
                              -> "clip"
                         [] a = GenerandoClip /\ b \in {EnviarMusica} \cup ClipErrors -> "clip"
                         [] a = EnviarMusica /\ b = Enviada -> "deliver"
                         [] OTHER -> "callback"
          IN Component(ev'.op) = owner ]_vars

\* C27: when the engine dispatches a template step with {{letra}} in a
\* parameter for a lead whose letraIds names requests of 'letras', the
\* parameter carries the lyric of the most recent of these requests.
C27_TemplateCarriesMostRecentLetra ==
  [][ (seq.pc = "loop" /\ seq' # seq /\ ev'.out = "sent") =>
        LET inst == seq.list[seq.k]
            msg == SeqMessages(inst.trigger)[inst.index + 1]
            ids == seq.data.letraIds
            own == {ids[k][2] : k \in {j \in 1..Len(ids) : ids[j][1] = "letras"}}
            recent == CHOOSE d \in own :
                        \A e \in own : letras[e].letraGeneratedAt <= letras[d].letraGeneratedAt
            sent == history'.engine[Len(history.engine) + 1]
        IN (msg.type = "template" /\ own # {}) =>
             \A k \in 1..Len(msg.parameters) :
               msg.parameters[k] = << "{{letra}}" >> =>
                 sent.content[k] = << LetraSym(letras[recent].letra) >> ]_vars

\* C28: whatever the type of the message, what the engine sends is the
\* template with each placeholder replaced by the attribute of the lead of
\* that name, by nothing when the lead has none, and {{nombre}} replaced by the
\* first token of the name between blanks or tabs.
C28_PlaceholdersReplaced ==
  [][ (seq.pc = "loop" /\ seq' # seq /\ ev'.out = "sent") =>
        LET inst == seq.list[seq.k]
            msg == SeqMessages(inst.trigger)[inst.index + 1]
            lead == seq'.data
            n == lead.nombre
            word == {i \in 1..Len(n) : n[i] \notin {"sp", "tab"}}
            stop == {i \in 1..Len(n) : i > First(word) /\ n[i] \in {"sp", "tab"}}
            token == IF word = {} THEN <<>>
                     ELSE SubSeq(n, First(word),
                                 IF stop = {} THEN Len(n) ELSE First(stop) - 1)
            value == [f \in Placeholders |->
                        IF f = "{{nombre}}" THEN token ELSE FieldValue(f, lead)]
            sent == history'.engine[Len(history.engine) + 1]
        IN sent.kind = "send" =>
             sent.content =
               IF msg.type = "template"
               THEN [k \in 1..Len(msg.parameters) |->
                       sanitizeParam(Substitute(msg.parameters[k], value))]
               ELSE Substitute(msg.contenido, value) ]_vars

\* C29: one invocation of generarLetraParaMusica, generarPromptParaMusica or
\* generarMusicaConSuno works on one document, which was pending for that
\* stage when it was selected: the status of no other document changes, and
\* the invocation calls its adapter once, however many documents are pending.
C29_OneRecordPerInvocation ==
  /\ [][ (musica' # musica /\ ev'.op \in {"generarLetraParaMusica", "generarPromptParaMusica"}) =>
           /\ musica[ev'.doc].status =
                (IF ev'.op = "generarLetraParaMusica" THEN SinLetra ELSE SinPrompt)
           /\ \A d \in Docs \ {ev'.doc} : musica'[d] = musica[d] ]_vars
  /\ [][ \A i \in Launchers :
           launch'[i] # launch[i] =>
             LET d == IF launch[i].pc = "idle" THEN launch'[i].doc ELSE launch[i].doc IN
               /\ \A e \in Docs \ {d} : musica'[e] = musica[e]
               /\ launch[i].pc = "idle" => musica[d].status = SinMusica
               /\ launch'[i].pc # "idle" => launch'[i].doc = d
               /\ <<launch[i].pc, launch'[i].pc>> \in
                    { <<"idle", "selected">>, <<"selected", "marked">>,
                      <<"marked", "posted">>, <<"posted", "idle">> }
               /\ tasks' # tasks =>
                    /\ launch[i].pc = "marked"
                    /\ Len(tasks') = Len(tasks) + 1 ]_vars

\* C29 witness: two documents were pending for Launch; one invocation has
\* ended, the first document is submitted and the second is still pending.
C29_OneOfTwoLaunched ==
  /\ scn.name = "launch-queue"
  /\ ev.op = "generarMusicaConSuno.end"
  /\ ev.doc = 1
  /\ musica[1].status = Procesando
  /\ musica[2].status = SinMusica
  /\ Len(tasks) = 1

\* C30: an instance whose trigger has no definition is passed over: nothing
\* is sent or logged for it, its index and completed flag stay as they were,
\* the loop goes on with the next instance of the lead, and no step, the write
\* at the end of the tick included, takes the instance off the lead's list.
C30_UndefinedTriggerSkipped ==
  /\ [][ (seq.pc = "loop" /\ seq' # seq /\ ~SeqDefined(seq.list[seq.k].trigger))
             => /\ history' = history
                /\ leads' = leads
                /\ seq'.list = seq.list
                /\ seq'.dirty = seq.dirty
                /\ seq'.k = seq.k + 1
                /\ seq'.pc = (IF seq.k < Len(seq.list) THEN "loop" ELSE "write") ]_vars
  /\ [][ \A l \in DOMAIN leads :
           \A j \in 1..Len(leads[l].secuenciasActivas) :
             ~SeqDefined(leads[l].secuenciasActivas[j].trigger) =>
               \E k \in 1..Len(leads'[l].secuenciasActivas) :
                 leads'[l].secuenciasActivas[k] = leads[l].secuenciasActivas[j] ]_vars

\* C30 witness: a tick passed over the instance without a definition, then
\* sent the first step of the lead's next instance, and its write left both
\* on the list, the first at its index.
C30_SkippedThenNextSent ==
  /\ scn.name = "content"
  /\ ev.op = "processSequences.end"
  /\ ev.out = "written"
  /\ Len(leads["L1"].secuenciasActivas) = 2
  /\ leads["L1"].secuenciasActivas[1].trigger = "SinDefinicion"
  /\ leads["L1"].secuenciasActivas[1].index = 0
  /\ leads["L1"].secuenciasActivas[2].trigger = "Contenido"
  /\ leads["L1"].secuenciasActivas[2].index = 1
  /\ Dispatches(history.engine, "Contenido", 0) # {}

\* C31: with Launch and the Reaper scheduled fairly and no callback arriving,
\* a record that Launch left in 'Procesando música' is reset by the Reaper to
\* 'Sin música' with its task id cleared, and a record so reset is handed to
\* the provider again by Launch.  The record waits for its callback: the
\* invocation of Launch that submitted it has ended.  (The record is launched
\* early enough for the threshold to pass before MaxTime, and the provider
\* takes one more submission.)
C31_StuckIsResetAndRelaunched ==
  \A d \in Docs :
    /\ (/\ musica[d].status = Procesando
        /\ musica[d].taskId # NoTask
        /\ \A i \in Launchers : launch[i].pc = "idle"
        /\ musica[d].generatedAt # NoTime
        /\ musica[d].generatedAt + STUCK_MINUTES + TimeStep <= MaxTime)
         ~> (musica[d].status = SinMusica /\ musica[d].taskId = NoTask
               /\ ev.op = "retryStuckMusic")
    /\ (/\ musica[d].status = SinMusica
        /\ ev.op = "retryStuckMusic"
        /\ \A i \in Launchers : launch[i].pc = "idle"
        /\ Len(tasks) < MaxTasks)
         ~> (ev.op = "lanzarTareaSuno" /\ ev.doc = d)

\* C31 witness: the provider holds two submissions for the record, the second
\* made by an invocation that selected the record after the first submission,
\* that is after the Reaper had reset it.
C31_RelaunchedAfterReset ==
  /\ Len(tasks) = 2
  /\ tasks[1].doc = 1
  /\ tasks[2].doc = 1
  /\ tasks[2].seen = 1
  /\ musica[1].status = Procesando
  /\ musica[1].taskId = 2

\* C32: a send of sendLetras that throws leaves the request 'enviarLetra',
\* and whenever a later run delivers the request, the first message it sends
\* is the greeting, whatever was delivered before the failure.
C32_RetryStartsAtGreeting ==
  /\ [][ ev'.op = "sendLetras.throw" /\ ev' # ev =>
           letras'[ev'.doc].status = EnviarLetra ]_vars
  /\ [](\A i \in 1..Len(history.sendLetras) :
          history.sendLetras[i].kind = "fail" =>
            LET d == history.sendLetras[i].doc
                later == {j \in (i + 1)..Len(history.sendLetras) :
                            /\ history.sendLetras[j].kind = "send"
                            /\ history.sendLetras[j].doc = d}
            IN later # {} => history.sendLetras[First(later)].what = LetraMessages[1])

\* C32 witness: the greeting and the lyric of a request were sent, the next
\* send failed, and a later run has sent the greeting of the request again.
C32_GreetingSentTwice ==
  \E i, j, k, m \in 1..Len(history.sendLetras) :
    /\ i < j /\ j < k /\ k < m
    /\ history.sendLetras[i].kind = "send"
    /\ history.sendLetras[i].what = LetraMessages[1]
    /\ history.sendLetras[j].kind = "send"
    /\ history.sendLetras[j].what = LetraMessages[2]
    /\ history.sendLetras[k].kind = "fail"
    /\ history.sendLetras[m].kind = "send"
    /\ history.sendLetras[m].what = LetraMessages[1]
    /\ {history.sendLetras[j].doc, history.sendLetras[k].doc, history.sendLetras[m].doc}
         = {history.sendLetras[i].doc}

\* C33: a step of a callback handler changes no record but the one whose
\* stored task id is the task id of the callback; a callback whose task id no
\* record stores changes no record.
C33_CallbackChangesOnlyItsRecord ==
  [][ (cb' # cb \/ cbCount' # cbCount) =>
        \A d \in Docs :
          musica'[d] # musica[d] => (ev'.task # NoTask /\ musica[d].taskId = ev'.task) ]_vars

\* C34: a callback that carries the task id of a submission the provider
\* accepted from Launch is never answered 'not found'.
C34_CallbackFindsItsRecord ==
  (ev.op \in {"sunoCallback", "sunoCallbackLegacy"} /\ ev.task \in 1..Len(tasks))
    => ev.out # "404"

\* C35: a record that is 'Enviada' keeps that status in every step, and once
\* a record has been marked as sent nothing more is sent for it.
C35_EnviadaIsFinal ==
  /\ [][ \A d \in Docs :
           musica[d].status = Enviada => musica'[d].status = Enviada ]_vars
  /\ [][ \A d \in Docs :
           musica[d].sentAt # NoTime => outbox'[d] = outbox[d] ]_vars

\* C36: in every step the status of a Lyric Request stays or moves on along
\* 'Sin letra', 'enviarLetra', 'enviada', and no step sends a message of a
\* request that is 'enviada'.
C36_LetraStatusOnlyForward ==
  /\ [][ \A d \in LetraDocs :
           LET rank == [x \in {SinLetra, EnviarLetra, LetraEnviadaStatus} |->
                          CASE x = SinLetra -> 0 [] x = EnviarLetra -> 1 [] OTHER -> 2]
           IN rank[letras'[d].status] >= rank[letras[d].status] ]_vars
  /\ [][ \A d \in LetraDocs :
           letras[d].status = LetraEnviadaStatus =>
             \A i \in (Len(history.sendLetras) + 1)..Len(history'.sendLetras) :
               ~(history'.sendLetras[i].kind = "send" /\ history'.sendLetras[i].doc = d) ]_vars

\* C37: a step of the engine's loop looks at one instance, moves on to the
\* next position and raises the index of that instance by one at most, so a
\* tick dispatches one step per instance at most; and the dispatches of a
\* trigger's steps appear in the order of their indices from 0 on, none left
\* out and none twice.
C37_OneStepPerTickInOrder ==
  /\ [][ (seq.pc = "loop" /\ seq' # seq) =>
           /\ seq'.k = seq.k + 1
           /\ Len(seq'.list) = Len(seq.list)
           /\ \A j \in 1..Len(seq.list) : j # seq.k => seq'.list[j] = seq.list[j]
           /\ seq'.list[seq.k].index \in {seq.list[seq.k].index, seq.list[seq.k].index + 1}
           /\ Cardinality({i \in (Len(history.engine) + 1)..Len(history'.engine) :
                             history'.engine[i].kind \in {"send", "fail"}}) <= 1 ]_vars
  /\ [](\A i \in 1..Len(history.engine) :
          history.engine[i].kind \in {"send", "fail"} =>
            history.engine[i].doc =
              Cardinality({j \in 1..(i - 1) :
                             /\ history.engine[j].kind \in {"send", "fail"}
                             /\ history.engine[j].what = history.engine[i].what}))

\* C37 witness: all six steps of 'Contenido' were due from the start; two
\* ticks have run without time passing and dispatched step 0 and step 1, one
\* each.
C37_TwoTicksTwoSteps ==
  /\ scn.name = "content"
  /\ now = TimeStep
  /\ ev.op = "processSequences.end"
  /\ Dispatches(history.engine, "Contenido", 0) # {}
  /\ Dispatches(history.engine, "Contenido", 1) # {}
  /\ Dispatches(history.engine, "Contenido", 2) = {}
  /\ leads["L1"].secuenciasActivas[2].index = 2

\* C38: a message sent to a lead whose stored phone equals the normalized
\* destination leaves one entry in the lead's message log: the log entries
\* written for a lyric request are as many as the messages sent for it, five
\* after one complete delivery.
C38_OneLogEntryPerMessage ==
  \A d \in DOMAIN letras :
    LET h == history.sendLetras
        phone == StripNonDigits(leads[letras[d].leadId].telefono)
        sends == {i \in 1..Len(h) : h[i].doc = d /\ h[i].kind = "send"}
        logs == {i \in 1..Len(h) : h[i].doc = d /\ h[i].kind \in {"log", "service-log"}} IN
    (/\ letras[d].leadId \in DOMAIN leads
     /\ letras[d].leadId \in LeadByPhone(Normalize(phone))) =>
      Cardinality(logs) = Cardinality(sends)

\* C39: with Deliver running again and again and the gateway accepting every
\* message, a Music Request in 'Enviar música' that has phone, lyrics and clip
\* URL reaches 'Enviada' in the end, a request without a stored creation
\* timestamp included.
C39_SendMusicEventuallySent ==
  \A d \in Docs :
    (musica[d].status = EnviarMusica /\ DeliverComplete(d)) ~> (musica[d].status = Enviada)

====
